---- MODULE Spec2Model ----
(***************************************************************************)
(* Model of hallonbullar: the hardware PWM channel manager (pwm.ts) and    *)
(* the GPIO line manager (gpio.ts).                                        *)
(*                                                                         *)
(* Every public method is one action: the library is synchronous           *)
(* (writeFileSync, sleepSync), so a call runs to completion before any      *)
(* other call of the process starts.  What the operating system decides    *)
(* (an I/O error on a write, how long udev takes) is an input of the       *)
(* action, drawn with \E.  The sysfs tree of the PWM chip is part of the   *)
(* state, and so is the observable trace of the most recent call (`last`). *)
(***************************************************************************)
EXTENDS Integers, Sequences, FiniteSets, TLC

\* ------------------------------------------------------------------ bounds
NumCtrl == 2        \* PWM controller objects (all opened on the same chip path)
NumChan == 2        \* channel indices of the chip
NumFreq == 2        \* valid frequencies tried: 1000 Hz, 3000 Hz, ... (2 * NumFreq - 1) * 1000 Hz
RatioDen == 2       \* duty ratios tried are n / RatioDen
MaxHandles == 2     \* PWMChannel objects alive at once
NumPin == 2         \* GPIO line offsets of the chip
MaxInputs == 2      \* GPIOInput objects ever constructed
NumCb == 2          \* distinct callback functions
MaxRegistered == 2  \* entries of one handle's edgeCallbacks array
MaxEvents == 17     \* edge events the kernel produces in one run of the edge pipeline
FewEvents == 2      \* edge events the kernel produces in one run with several handles
NumSoft == 1        \* SoftwarePWM objects ever constructed
MaxFaults == 1      \* irregularities of the operating system in one run: I/O errors
                    \* on a write, a slow directory, slow permissions, a missing chip

\* ------------------------------------------------------- program constants
NsPerSec == 1000000000
DirRetries == 10
PermRetries == 50
DefaultFrequencyHz == 1000
EventBufferSize == 16
SoftDefaultFrequencyHz == 100

\* The clock of the model advances in steps of a quarter of the default period
\* of the software PWM, for at most MaxClockSteps steps.
ClockStepNs == NsPerSec \div (4 * SoftDefaultFrequencyHz)
MaxClockSteps == 8

Ctrl == 1..NumCtrl
Chan == 0..(NumChan - 1)

\* Frequencies offered to channel() and setFrequency(): two that are rejected
\* and NumFreq that are accepted (3000 Hz does not divide 1e9, so rounding is
\* exercised: 333333.33 -> 333333, and half of it, 166666.5 -> 166667).
ValidFreqs == {DefaultFrequencyHz * (2 * k - 1) : k \in 1..NumFreq}
FreqInputs == {0 - DefaultFrequencyHz, 0} \cup ValidFreqs

\* Duty ratios are numerators over RatioDen; -1 and RatioDen + 1 are out of range.
RatioInputs == (0 - 1)..(RatioDen + 1)


\* Arguments offered to channel(): every valid pair, each invalid frequency with
\* the default ratio, each invalid ratio with the default frequency, and an
\* invalid frequency with an invalid ratio.
ChannelArgs ==
    (ValidFreqs \X (0..RatioDen))
        \cup ({0 - DefaultFrequencyHz, 0} \X {RatioDen \div 2})
        \cup ({DefaultFrequencyHz} \X {0 - 1, RatioDen + 1})
        \cup {<<0, 0 - 1>>}

\* Math.round(a / b) for a >= 0, b > 0: round half up.
MathRound(a, b) == (2 * a + b) \div (2 * b)

\* pwm.ts: Math.round(1_000_000_000 / frequencyHz)
PeriodOf(f) == MathRound(NsPerSec, f)

\* Mutant of DutyNsOf: truncates instead of rounding.
DutyNsOfTruncated(p, n) == (p * n) \div RatioDen

\* pwm.ts: Math.round(periodNs * ratio), ratio = n / RatioDen
DutyNsOf(p, n) == MathRound(p * n, RatioDen)

\* if (frequencyHz <= 0) throw
FrequencyOk(f) == ~(f <= 0)

\* Mutants of RatioOk: one of the two comparisons is missing.
RatioOkNoUpper(n) == ~(n < 0)
RatioOkNoLower(n) == ~(n > RatioDen)

\* if (ratio < 0 || ratio > 1) throw
RatioOk(n) == ~(n < 0 \/ n > RatioDen)

VARIABLES
    pwmState,   \* [Ctrl -> {"unborn", "open", "closed"}]: PWM object and its _closed
    channels,   \* [Ctrl -> Seq(Chan)]: keys of PWM.channels in insertion order
    handles,    \* [Ctrl -> [Chan -> PWMChannel fields]]: the PWMChannel objects
    sysfs,      \* [Chan -> directory of the channel under the chip path]
    relWrites,  \* per handle: writes of enable=0 / unexport made on its behalf
    faults,     \* irregularities of the operating system so far
    last,       \* trace of the most recent call
    gpioState,  \* [Ctrl -> {"unborn", "open", "closed"}]: GPIO object and its _closed
    outputs,    \* [Ctrl -> Seq(handle id)]: GPIO.outputs
    outObj,     \* [handle id -> GPIOOutput fields]: the GPIOOutput objects
    lineBusy,   \* line offsets the kernel holds a request for
    inputs,     \* [Ctrl -> Seq(handle id)]: GPIO.inputs
    inObj,      \* [handle id -> GPIOInput fields, its timers and its kernel queue]
    soft,       \* [engine id -> SoftwarePWM fields]
    blocked,    \* the FFI wait the JavaScript thread is inside, or NoWait
    now         \* Bun.nanoseconds(): the monotonic clock, in nanoseconds

pwmVars == <<pwmState, channels, handles, sysfs, relWrites>>
gpioVars == <<gpioState, outputs, outObj, lineBusy, inputs, inObj, soft, blocked, now>>
vars == <<pwmState, channels, handles, sysfs, relWrites, faults, last,
          gpioState, outputs, outObj, lineBusy, inputs, inObj, soft, blocked, now>>

NoHandle == [made |-> FALSE, periodNs |-> 0, dutyCycle |-> 0, closed |-> FALSE]
NoDir == [exported |-> FALSE, period |-> 0, duty_cycle |-> 0, enable |-> 0]
NoRel == [disable |-> 0, unexport |-> 0]
Pin == 0..(NumPin - 1)
OutId == 1..MaxHandles
NoOutput == [made |-> FALSE, pin |-> 0, state |-> FALSE, closed |-> FALSE]
InId == 1..MaxInputs
CbId == 1..NumCb
SoftId == 1..NumSoft
EdgeSettings == {"none", "both"}

\* A GPIOInput: its fields (gpio.ts 225-232), the intervals the runtime holds
\* for it (timers), the generator made by edges() (gen), and the kernel's side
\* of its line request: the queue of pending edge events, by sequence number,
\* and the number produced so far.  steady / count: the deliveries made while
\* the callback array has not changed since the first event was read and no
\* single-wait has read an event.
NoInput ==
    [made |-> FALSE, pin |-> 0, edge |-> "none", closed |-> FALSE,
     eventBuffer |-> FALSE, edgeCallbacks |-> <<>>, pollInterval |-> FALSE,
     timers |-> 0, gen |-> "none", queue |-> <<>>, arrived |-> 0,
     steady |-> TRUE, count |-> [k \in CbId |-> 0]]

\* A SoftwarePWM: output is the id of its GPIOOutput; duty is a numerator over
\* RatioDen.
NoSoft ==
    [made |-> FALSE, output |-> 1, dutyCycle |-> 0, frequencyHz |-> 0,
     closed |-> FALSE, timer |-> FALSE, cycleStartNs |-> 0, lastState |-> FALSE]

\* No FFI wait is in progress.
NoWait == [inp |-> 0, t |-> "none", via |-> "none"]

Range(s) == {s[i] : i \in 1..Len(s)}

\* Irregularities the operating system may still produce.  A run has either
\* irregularities or a second controller on the chip: they are injected only
\* while the first controller is the only one, and a further controller is
\* constructed only in a run without any.  (What the kernel itself refuses, such
\* as EBUSY on export or a write into a directory that is gone, is no irregularity
\* and happens in every run.)
Solo == \A c \in Ctrl : c > 1 => pwmState[c] = "unborn"
FaultsLeft == IF Solo THEN MaxFaults - faults ELSE 0
IoErrors == IF FaultsLeft > 0 THEN BOOLEAN ELSE {FALSE}
Cost(b) == IF b THEN 1 ELSE 0

Call(op, out, writes, dirSleeps, permChecks) ==
    [op |-> op, out |-> out, writes |-> writes,
     dirSleeps |-> dirSleeps, permChecks |-> permChecks]

W(file, ch, val, ok) == [file |-> file, ch |-> ch, val |-> val, ok |-> ok]

Init ==
    /\ pwmState = [c \in Ctrl |-> "unborn"]
    /\ channels = [c \in Ctrl |-> <<>>]
    /\ handles = [c \in Ctrl |-> [ch \in Chan |-> NoHandle]]
    /\ sysfs = [ch \in Chan |-> NoDir]
    /\ relWrites = [c \in Ctrl |-> [ch \in Chan |-> NoRel]]
    /\ faults = 0
    /\ last = Call("init", "ok", <<>>, 0, 0)
    /\ gpioState = [g \in Ctrl |-> "unborn"]
    /\ outputs = [g \in Ctrl |-> <<>>]
    /\ outObj = [id \in OutId |-> NoOutput]
    /\ lineBusy = {}
    /\ inputs = [g \in Ctrl |-> <<>>]
    /\ inObj = [id \in InId |-> NoInput]
    /\ soft = [s \in SoftId |-> NoSoft]
    /\ blocked = NoWait
    /\ now = 0

\* ------------------------------------------------------------ sysfs (kernel)
\* Whether the kernel takes a write to `file` of channel `ch`: export fails
\* with EBUSY on an exported channel, unexport fails on one that is not exported,
\* and the control files exist only while the channel is exported.
KernelAccepts(fs, file, ch) ==
    CASE file = "export" -> ~fs[ch].exported
      [] file = "unexport" -> fs[ch].exported
      [] OTHER -> fs[ch].exported

KernelApply(fs, file, ch, val) ==
    CASE file = "export" -> [fs EXCEPT ![ch] = [NoDir EXCEPT !.exported = TRUE]]
      [] file = "unexport" -> [fs EXCEPT ![ch] = NoDir]
      [] file = "period" -> [fs EXCEPT ![ch].period = val]
      [] file = "duty_cycle" -> [fs EXCEPT ![ch].duty_cycle = val]
      [] file = "enable" -> [fs EXCEPT ![ch].enable = val]

\* fsWriteFileSync(path, String(val)): one write; it throws (ok = FALSE) when the
\* kernel refuses it or the operating system fails it (ioError).
WriteFile(fs, file, ch, val, ioError) ==
    LET ok == KernelAccepts(fs, file, ch) /\ ~ioError
    IN [fs |-> IF ok THEN KernelApply(fs, file, ch, val) ELSE fs,
        log |-> <<W(file, ch, val, ok)>>,
        ok |-> ok]

\* Mutant of WriteInOrder: the writes are issued last first.
RECURSIVE WriteLastFirst(_, _, _, _)
WriteLastFirst(fs, reqs, failAt, i) ==
    IF i > Len(reqs) THEN [fs |-> fs, log |-> <<>>, ok |-> TRUE]
    ELSE LET j == Len(reqs) + 1 - i
             w == WriteFile(fs, reqs[j][1], reqs[j][2], reqs[j][3], failAt = i)
         IN IF ~w.ok THEN w
            ELSE LET rest == WriteLastFirst(w.fs, reqs, failAt, i + 1)
                 IN [fs |-> rest.fs, log |-> w.log \o rest.log, ok |-> rest.ok]

\* A run of writes in program order that stops at the first one that throws.
\* reqs is a sequence of <<file, ch, val>>; the failAt-th of them gets an I/O error.
RECURSIVE WriteInOrder(_, _, _, _)
WriteInOrder(fs, reqs, failAt, i) ==
    IF i > Len(reqs) THEN [fs |-> fs, log |-> <<>>, ok |-> TRUE]
    ELSE LET w == WriteFile(fs, reqs[i][1], reqs[i][2], reqs[i][3], failAt = i)
         IN IF ~w.ok THEN w
            ELSE LET rest == WriteInOrder(w.fs, reqs, failAt, i + 1)
                 IN [fs |-> rest.fs, log |-> w.log \o rest.log, ok |-> rest.ok]

\* ------------------------------------------------------------- PWMChannel
checkClosedChannel(h) == h.closed

\* PWMChannel.setDutyCycle(ratio)
SetDutyCycle(c, ch, r, ioError) ==
    /\ handles[c][ch].made
    /\ LET h == handles[c][ch]
           w == WriteFile(sysfs, "duty_cycle", ch, DutyNsOf(h.periodNs, r), ioError)
       IN IF checkClosedChannel(h)
          THEN /\ ~ioError
               /\ last' = Call("setDutyCycle", "ClosedHandle", <<>>, 0, 0)
               /\ UNCHANGED <<handles, sysfs>>
          ELSE IF ~RatioOk(r)
          THEN /\ ~ioError
               /\ last' = Call("setDutyCycle", "InvalidParameter", <<>>, 0, 0)
               /\ UNCHANGED <<handles, sysfs>>
          ELSE IF ~w.ok
          THEN /\ last' = Call("setDutyCycle", "WriteFailed", w.log, 0, 0)
               /\ sysfs' = w.fs
               /\ UNCHANGED handles
          ELSE /\ last' = Call("setDutyCycle", "ok", w.log, 0, 0)
               /\ sysfs' = w.fs
               /\ handles' = [handles EXCEPT ![c][ch].dutyCycle = r]
    /\ faults' = faults + Cost(ioError)
    /\ UNCHANGED <<pwmState, channels, relWrites, gpioVars>>

\* PWMChannel.setFrequency(frequencyHz)
SetFrequency(c, ch, f, failAt) ==
    /\ handles[c][ch].made
    /\ LET h == handles[c][ch]
           periodNs == PeriodOf(f)
           w == WriteInOrder(sysfs,
                    << <<"period", ch, periodNs>>,
                       <<"duty_cycle", ch, DutyNsOf(periodNs, h.dutyCycle)>> >>,
                    failAt, 1)
       IN IF checkClosedChannel(h)
          THEN /\ failAt = 0
               /\ last' = Call("setFrequency", "ClosedHandle", <<>>, 0, 0)
               /\ UNCHANGED <<handles, sysfs>>
          ELSE IF ~FrequencyOk(f)
          THEN /\ failAt = 0
               /\ last' = Call("setFrequency", "InvalidParameter", <<>>, 0, 0)
               /\ UNCHANGED <<handles, sysfs>>
          ELSE IF ~w.ok
          THEN /\ failAt = 0 \/ failAt = Len(w.log)
               /\ last' = Call("setFrequency", "WriteFailed", w.log, 0, 0)
               /\ sysfs' = w.fs
               /\ UNCHANGED handles
          ELSE /\ last' = Call("setFrequency", "ok", w.log, 0, 0)
               /\ sysfs' = w.fs
               /\ handles' = [handles EXCEPT ![c][ch].periodNs = periodNs]
    /\ faults' = faults + Cost(failAt # 0)
    /\ UNCHANGED <<pwmState, channels, relWrites, gpioVars>>

\* Mutant of CloseChannel: a failed enable=0 write leaves the handle open.
CloseChannelFatal(h, fs, ch, ioError) ==
    IF ~h.closed
    THEN LET w == WriteFile(fs, "enable", ch, 0, ioError)
         IN [h |-> [h EXCEPT !.closed = w.ok], fs |-> w.fs, log |-> w.log]
    ELSE [h |-> h, fs |-> fs, log |-> <<>>]

\* The body of PWMChannel.close() on handle h of channel ch: the new handle, the
\* new sysfs tree and the writes attempted (the enable=0 write is in a try/catch).
CloseChannel(h, fs, ch, ioError) ==
    IF ~h.closed
    THEN LET w == WriteFile(fs, "enable", ch, 0, ioError)
         IN [h |-> [h EXCEPT !.closed = TRUE], fs |-> w.fs, log |-> w.log]
    ELSE [h |-> h, fs |-> fs, log |-> <<>>]

\* PWMChannel.close()
ChannelClose(c, ch, ioError) ==
    /\ handles[c][ch].made
    /\ ioError => ~handles[c][ch].closed
    /\ LET r == CloseChannel(handles[c][ch], sysfs, ch, ioError)
       IN /\ handles' = [handles EXCEPT ![c][ch] = r.h]
          /\ sysfs' = r.fs
          /\ relWrites' = [relWrites EXCEPT ![c][ch].disable = @ + Len(r.log)]
          /\ last' = Call("PWMChannel.close", "ok", r.log, 0, 0)
    /\ faults' = faults + Cost(ioError)
    /\ UNCHANGED <<pwmState, channels, gpioVars>>

\* ------------------------------------------------------------------- PWM
\* new PWM(chipPath): throws unless the chip path and its export file exist and
\* the export file is writable (chipOk).  The controllers are constructed in
\* the order of their names (the objects are interchangeable).
PWMNew(c, chipOk) ==
    /\ pwmState[c] = "unborn"
    /\ \A b \in Ctrl : b < c => pwmState[b] # "unborn"
    /\ c > 1 => faults = 0
    /\ IF chipOk
       THEN /\ pwmState' = [pwmState EXCEPT ![c] = "open"]
            /\ channels' = [channels EXCEPT ![c] = <<>>]
            /\ handles' = [handles EXCEPT ![c] = [ch \in Chan |-> NoHandle]]
            /\ relWrites' = [relWrites EXCEPT ![c] = [ch \in Chan |-> NoRel]]
            /\ last' = Call("new PWM", "ok", <<>>, 0, 0)
       ELSE /\ last' = Call("new PWM", "ChipOpenFailed", <<>>, 0, 0)
            /\ UNCHANGED <<pwmState, channels, handles, relWrites>>
    /\ faults' = faults + Cost(~chipOk)
    /\ UNCHANGED <<sysfs, gpioVars>>

\* Mutant of DirPoll: the loop runs while retries >= 0, one sleep more.
RECURSIVE DirPollOneMore(_, _, _)
DirPollOneMore(dirDelay, retries, sleeps) ==
    IF ~(sleeps >= dirDelay) /\ retries >= 0
    THEN DirPollOneMore(dirDelay, retries - 1, sleeps + 1)
    ELSE sleeps

\* The loop `while (!existsSync(channelPath) && retries > 0) { sleep; retries-- }`
\* when the directory appears after dirDelay sleeps: the number of sleeps made.
RECURSIVE DirPoll(_, _, _)
DirPoll(dirDelay, retries, sleeps) ==
    IF ~(sleeps >= dirDelay) /\ retries > 0
    THEN DirPoll(dirDelay, retries - 1, sleeps + 1)
    ELSE sleeps

\* Mutant of PermPoll: the loop runs while permRetries >= 0, one check more.
RECURSIVE PermPollOneMore(_, _, _)
PermPollOneMore(permDelay, permRetries, checks) ==
    IF permRetries >= 0
    THEN IF checks >= permDelay
         THEN [permRetries |-> permRetries, checks |-> checks + 1]
         ELSE PermPollOneMore(permDelay, permRetries - 1, checks + 1)
    ELSE [permRetries |-> 0, checks |-> checks]

\* The loop `while (permRetries > 0) { try { accessSync; break } catch { sleep;
\* permRetries-- } }` when the first permDelay checks fail: the retries left and
\* the number of access checks made.
RECURSIVE PermPoll(_, _, _)
PermPoll(permDelay, permRetries, checks) ==
    IF permRetries > 0
    THEN IF checks >= permDelay
         THEN [permRetries |-> permRetries, checks |-> checks + 1]
         ELSE PermPoll(permDelay, permRetries - 1, checks + 1)
    ELSE [permRetries |-> permRetries, checks |-> checks]

\* How long the directory / the permissions take: at once, or (an irregularity)
\* at the last poll or after it.
DirDelays == {0} \cup (IF FaultsLeft > 0 THEN {DirRetries, DirRetries + 1} ELSE {})
PermDelays(used) ==
    {0} \cup (IF FaultsLeft > used THEN {PermRetries - 1, PermRetries} ELSE {})
ConfigErrors(used) == {0} \cup (IF FaultsLeft > used THEN 1..3 ELSE {})

\* Mutant of Tracked: the in-use check is missing.
TrackedNever(c, ch) == FALSE

\* this.channels.has(channel)
Tracked(c, ch) == ch \in Range(channels[c])

\* Mutant of existsSync: the directory is never found.
existsSyncNever(fs, ch) == FALSE

\* existsSync(channelPath): the control directory of the channel exists.
existsSync(fs, ch) == fs[ch].exported

NumHandles == Cardinality({x \in Ctrl \X Chan : handles[x[1]][x[2]].made})

\* A call of PWM.channel that ends by throwing `out`: nothing is tracked.
ChannelThrows(out, fs, log, dirSleeps, permChecks, used) ==
    /\ last' = Call("channel", out, log, dirSleeps, permChecks)
    /\ sysfs' = fs
    /\ faults' = faults + used
    /\ UNCHANGED <<pwmState, channels, handles, relWrites>>

\* PWM.channel from "Set period and duty cycle" on: the three writes, then the
\* channel is tracked and returned.
ChannelConfigure(c, ch, f, r, fs, log, dirSleeps, permChecks, used, failAt) ==
    LET periodNs == PeriodOf(f)
        w == WriteInOrder(fs,
                 << <<"period", ch, periodNs>>,
                    <<"duty_cycle", ch, DutyNsOf(periodNs, r)>>,
                    <<"enable", ch, 1>> >>,
                 failAt, 1)
    IN IF ~w.ok
       THEN /\ failAt = 0 \/ failAt = Len(w.log)
            /\ ChannelThrows("WriteFailed", w.fs, log \o w.log,
                             dirSleeps, permChecks, used + Cost(failAt # 0))
       ELSE /\ channels' = [channels EXCEPT ![c] = Append(@, ch)]
            /\ handles' = [handles EXCEPT ![c][ch] =
                              [made |-> TRUE, periodNs |-> periodNs,
                               dutyCycle |-> r, closed |-> FALSE]]
            /\ sysfs' = w.fs
            /\ faults' = faults + used
            /\ last' = Call("channel", "ok", log \o w.log, dirSleeps, permChecks)
            /\ UNCHANGED <<pwmState, relWrites>>

\* PWM.channel from "Wait for udev to set permissions" on.
ChannelPermission(c, ch, f, r, fs, log, dirSleeps, used) ==
    \E permDelay \in PermDelays(used) :
        LET p == PermPoll(permDelay, PermRetries, 0)
            used2 == used + Cost(permDelay # 0)
        IN IF p.permRetries = 0
           THEN ChannelThrows("PermissionDenied", fs, log, dirSleeps,
                              p.checks, used2)
           ELSE \E failAt \in ConfigErrors(used2) :
                    ChannelConfigure(c, ch, f, r, fs, log, dirSleeps, p.checks, used2, failAt)

\* PWM.channel from the export write on.
ChannelExport(c, ch, f, r) ==
    \E ioError \in IoErrors :
        LET e == WriteFile(sysfs, "export", ch, ch, ioError)
        IN IF ~e.ok
           THEN IF existsSync(sysfs, ch)
                THEN \* channelAlreadyExported: reuse, no directory poll
                     /\ ~ioError
                     /\ ChannelPermission(c, ch, f, r, e.fs, e.log, 0, 0)
                ELSE ChannelThrows("ExportFailed", e.fs, e.log, 0, 0, 1)
           ELSE \E dirDelay \in DirDelays :
                    LET sleeps == DirPoll(dirDelay, DirRetries, 0)
                    IN IF ~(sleeps >= dirDelay)
                       THEN \* the cleanup write may fail as part of the same irregularity
                            \E unexportError \in BOOLEAN :
                                LET u == WriteFile(e.fs, "unexport", ch, ch, unexportError)
                                IN ChannelThrows("ExportTimeout", u.fs,
                                                 e.log \o u.log, sleeps, 0, 1)
                       ELSE ChannelPermission(c, ch, f, r, e.fs, e.log, sleeps,
                                              Cost(dirDelay # 0))

\* PWM.channel(channel, {frequencyHz, dutyCycle})
Channel(c, ch, f, r) ==
    /\ pwmState[c] # "unborn"
    /\ UNCHANGED gpioVars
    /\ IF pwmState[c] = "closed"
       THEN ChannelThrows("ClosedHandle", sysfs, <<>>, 0, 0, 0)
       ELSE IF Tracked(c, ch)
       THEN ChannelThrows("ChannelInUse", sysfs, <<>>, 0, 0, 0)
       ELSE IF ~FrequencyOk(f) \/ ~RatioOk(r)
       THEN ChannelThrows("InvalidParameter", sysfs, <<>>, 0, 0, 0)
       ELSE /\ NumHandles < MaxHandles
            /\ ChannelExport(c, ch, f, r)

\* The loop of PWM.close() over the tracked channels, in insertion order: each
\* open handle is closed, then the channel is unexported; both writes are in a
\* try/catch.  disableErr / unexportErr: the channels whose write gets an I/O error.
RECURSIVE CloseAll(_, _, _, _, _, _, _)
CloseAll(chs, i, hs, fs, rel, disableErr, unexportErr) ==
    IF i > Len(chs) THEN [hs |-> hs, fs |-> fs, rel |-> rel, log |-> <<>>]
    ELSE LET ch == chs[i]
             k == CloseChannel(hs[ch], fs, ch, ch \in disableErr)
             u == WriteFile(k.fs, "unexport", ch, ch, ch \in unexportErr)
             rest == CloseAll(chs, i + 1, [hs EXCEPT ![ch] = k.h], u.fs,
                              [rel EXCEPT ![ch] = [disable |-> @.disable + Len(k.log),
                                                   unexport |-> @.unexport + 1]],
                              disableErr, unexportErr)
         IN [rest EXCEPT !.log = k.log \o u.log \o @]

\* PWM.close()
PWMClose(c, disableErr, unexportErr) ==
    /\ pwmState[c] # "unborn"
    /\ disableErr \subseteq {ch \in Range(channels[c]) : ~handles[c][ch].closed}
    /\ unexportErr \subseteq Range(channels[c])
    /\ Cardinality(disableErr) + Cardinality(unexportErr) <= FaultsLeft
    /\ faults' = faults + Cardinality(disableErr) + Cardinality(unexportErr)
    /\ UNCHANGED gpioVars
    /\ IF pwmState[c] # "closed"
       THEN LET r == CloseAll(channels[c], 1, handles[c], sysfs, relWrites[c],
                              disableErr, unexportErr)
            IN /\ handles' = [handles EXCEPT ![c] = r.hs]
               /\ sysfs' = r.fs
               /\ relWrites' = [relWrites EXCEPT ![c] = r.rel]
               /\ channels' = [channels EXCEPT ![c] = <<>>]
               /\ pwmState' = [pwmState EXCEPT ![c] = "closed"]
               /\ last' = Call("PWM.close", "ok", r.log, 0, 0)
       ELSE /\ last' = Call("PWM.close", "ok", <<>>, 0, 0)
            /\ UNCHANGED <<pwmState, channels, handles, sysfs, relWrites>>

\* ------------------------------------------------------------------ GPIO
\* One call through the FFI, as it appears in the trace of a call.
Ffi(name, arg, ok) == W(name, arg, 0, ok)

\* new GPIO(chipPath): gpiod_chip_open returns NULL on an error (chipOk = FALSE).
GPIONew(g, chipOk) ==
    /\ gpioState[g] = "unborn"
    /\ \A b \in Ctrl : b < g => gpioState[b] # "unborn"
    /\ IF chipOk
       THEN /\ gpioState' = [gpioState EXCEPT ![g] = "open"]
            /\ last' = Call("new GPIO", "ok", <<Ffi("gpiod_chip_open", 0, TRUE)>>, 0, 0)
       ELSE /\ last' = Call("new GPIO", "ChipOpenFailed",
                            <<Ffi("gpiod_chip_open", 0, FALSE)>>, 0, 0)
            /\ UNCHANGED gpioState
    /\ faults' = faults + Cost(~chipOk)
    /\ UNCHANGED <<outputs, outObj, lineBusy, inputs, inObj, soft, now, blocked, pwmVars>>

\* Mutant of KernelRequestOk: the kernel grants a line that is already requested.
KernelRequestShared(busy, pin, ioError) == ~ioError

\* gpiod_chip_request_lines: "Request a set of lines for exclusive usage"; NULL
\* when the line is already requested or on any other error.
KernelRequestOk(busy, pin, ioError) == pin \notin busy /\ ~ioError

\* GPIO.output(pin, {initialValue})
Output(g, pin, initialValue, ioError) ==
    /\ gpioState[g] # "unborn"
    /\ IF gpioState[g] = "closed"
       THEN /\ ~ioError
            /\ last' = Call("output", "ClosedHandle", <<>>, 0, 0)
            /\ UNCHANGED <<outputs, outObj, lineBusy>>
       ELSE /\ \E id \in OutId : ~outObj[id].made
            /\ LET id == CHOOSE id \in OutId :
                             ~outObj[id].made /\ \A j \in OutId : j < id => outObj[j].made
                   ok == KernelRequestOk(lineBusy, pin, ioError)
                   log == <<Ffi("gpiod_chip_request_lines", pin, ok)>>
               IN IF ~ok
                  THEN /\ last' = Call("output", "RequestFailed", log, 0, 0)
                       /\ UNCHANGED <<outputs, outObj, lineBusy>>
                  ELSE /\ lineBusy' = lineBusy \cup {pin}
                       /\ outObj' = [outObj EXCEPT ![id] =
                                        [made |-> TRUE, pin |-> pin,
                                         state |-> initialValue, closed |-> FALSE]]
                       /\ outputs' = [outputs EXCEPT ![g] = Append(@, id)]
                       /\ last' = Call("output", "ok", log, 0, 0)
    /\ faults' = faults + Cost(ioError)
    /\ UNCHANGED <<gpioState, inputs, inObj, soft, now, blocked, pwmVars>>

\* GPIO.input(pin, {edge}); the GPIOInput constructor makes the event buffer
\* when edge detection is on.
Input(g, pin, edge, ioError) ==
    /\ gpioState[g] # "unborn"
    /\ IF gpioState[g] = "closed"
       THEN /\ ~ioError
            /\ last' = Call("input", "ClosedHandle", <<>>, 0, 0)
            /\ UNCHANGED <<inputs, inObj, lineBusy>>
       ELSE /\ \E id \in InId : ~inObj[id].made
            /\ LET id == CHOOSE id \in InId :
                             ~inObj[id].made /\ \A j \in InId : j < id => inObj[j].made
                   ok == KernelRequestOk(lineBusy, pin, ioError)
                   log == <<Ffi("gpiod_chip_request_lines", pin, ok)>>
               IN IF ~ok
                  THEN /\ last' = Call("input", "RequestFailed", log, 0, 0)
                       /\ UNCHANGED <<inputs, inObj, lineBusy>>
                  ELSE /\ lineBusy' = lineBusy \cup {pin}
                       /\ inObj' = [inObj EXCEPT ![id] =
                                       [NoInput EXCEPT !.made = TRUE, !.pin = pin,
                                                       !.edge = edge,
                                                       !.eventBuffer = (edge # "none")]]
                       /\ inputs' = [inputs EXCEPT ![g] = Append(@, id)]
                       /\ last' = Call("input", "ok",
                                       log \o (IF edge # "none"
                                               THEN <<Ffi("gpiod_edge_event_buffer_new", pin, TRUE)>>
                                               ELSE <<>>), 0, 0)
    /\ faults' = faults + Cost(ioError)
    /\ UNCHANGED <<gpioState, outputs, outObj, soft, now, blocked, pwmVars>>

\* The first FFI call of getChipInfo / getLineInfo / findPin.
QueryFfi(which) ==
    CASE which = "getChipInfo" -> "gpiod_chip_get_info"
      [] which = "getLineInfo" -> "gpiod_chip_get_line_info"
      [] which = "findPin" -> "gpiod_chip_get_line_offset_from_name"

\* GPIO.getChipInfo() / GPIO.getLineInfo(pin) / GPIO.findPin(name)
Query(g, which, ioError) ==
    /\ gpioState[g] # "unborn"
    /\ IF gpioState[g] = "closed"
       THEN /\ ~ioError
            /\ last' = Call(which, "ClosedHandle", <<>>, 0, 0)
       ELSE last' = Call(which, IF ioError THEN "QueryFailed" ELSE "ok",
                         <<Ffi(QueryFfi(which), 0, ~ioError)>>, 0, 0)
    /\ faults' = faults + Cost(ioError)
    /\ UNCHANGED <<gpioVars, pwmVars>>

\* Mutant of SetValue: the level is set without looking at _closed.
SetValueUnchecked(o, op, value) ==
    LET level == CASE op = "on" -> TRUE
                   [] op = "off" -> FALSE
                   [] op = "toggle" -> ~o.state
                   [] op = "write" -> value
    IN [o |-> [o EXCEPT !.state = level],
        log |-> <<W("gpiod_line_request_set_value", o.pin,
                    IF level THEN 1 ELSE 0, TRUE)>>,
        out |-> "ok"]

\* GPIOOutput.on() / off() / toggle() / write(value) on the object o: the new
\* object, the FFI calls and the outcome.  The result of
\* gpiod_line_request_set_value is not looked at.
SetValue(o, op, value) ==
    IF o.closed
    THEN [o |-> o, log |-> <<>>, out |-> "ClosedHandle"]
    ELSE LET level == CASE op = "on" -> TRUE
                        [] op = "off" -> FALSE
                        [] op = "toggle" -> ~o.state
                        [] op = "write" -> value
         IN [o |-> [o EXCEPT !.state = level],
             log |-> <<W("gpiod_line_request_set_value", o.pin,
                         IF level THEN 1 ELSE 0, TRUE)>>,
             out |-> "ok"]

OutputOps == {<<"on", TRUE>>, <<"off", FALSE>>, <<"toggle", FALSE>>,
              <<"write", TRUE>>, <<"write", FALSE>>}

\* GPIOOutput.on() / off() / toggle() / write(value)
OutputSet(id, op, value) ==
    /\ outObj[id].made
    /\ LET r == SetValue(outObj[id], op, value)
       IN /\ outObj' = [outObj EXCEPT ![id] = r.o]
          /\ last' = Call(op, r.out, r.log, 0, 0)
    /\ UNCHANGED <<gpioState, outputs, lineBusy, inputs, inObj, soft, now, blocked,
                   faults, pwmVars>>

\* The body of GPIOOutput.close(): gpiod_line_request_release, then _closed.
CloseOutput(o, busy) ==
    IF ~o.closed
    THEN [o |-> [o EXCEPT !.closed = TRUE], busy |-> busy \ {o.pin},
          log |-> <<Ffi("gpiod_line_request_release", o.pin, TRUE)>>]
    ELSE [o |-> o, busy |-> busy, log |-> <<>>]

\* GPIOOutput.close()
OutputClose(id) ==
    /\ outObj[id].made
    /\ LET r == CloseOutput(outObj[id], lineBusy)
       IN /\ outObj' = [outObj EXCEPT ![id] = r.o]
          /\ lineBusy' = r.busy
          /\ last' = Call("GPIOOutput.close", "ok", r.log, 0, 0)
    /\ UNCHANGED <<gpioState, outputs, inputs, inObj, soft, now, blocked, faults, pwmVars>>

\* ------------------------------------------------------------- GPIOInput
\* Events the kernel has handed out of the queue of x so far.
EventsRead(x) == x.arrived - Len(x.queue)

\* The callback array becomes cbs: deliveries are no longer steady once an
\* event has been read.
WithCallbacks(x, cbs) ==
    IF cbs = x.edgeCallbacks \/ EventsRead(x) = 0
    THEN [x EXCEPT !.edgeCallbacks = cbs]
    ELSE [x EXCEPT !.edgeCallbacks = cbs, !.steady = FALSE,
                   !.count = [k \in CbId |-> 0]]

\* startPolling(): setInterval(..., 1) and keep its id in pollInterval.
startPolling(x) == [x EXCEPT !.timers = @ + 1, !.pollInterval = TRUE]

\* Mutant of stopPolling: pollInterval is forgotten but the interval is not cleared.
stopPollingLeaks(x) == [x EXCEPT !.pollInterval = FALSE]

\* stopPolling(): if (pollInterval !== null) { clearInterval; pollInterval = null }
stopPolling(x) ==
    IF x.pollInterval THEN [x EXCEPT !.timers = @ - 1, !.pollInterval = FALSE] ELSE x

\* edgeCallbacks.indexOf(cb), counted from 1; 0 when absent.
IndexOf(cbs, cb) ==
    IF \E i \in 1..Len(cbs) : cbs[i] = cb
    THEN CHOOSE i \in 1..Len(cbs) : cbs[i] = cb /\ \A j \in 1..(i - 1) : cbs[j] # cb
    ELSE 0

\* edgeCallbacks.splice(index, 1)
Splice(cbs, index) == SubSeq(cbs, 1, index - 1) \o SubSeq(cbs, index + 1, Len(cbs))

\* Mutant of onEdge: the edge setting of the line is not looked at.
onEdgeAnyLine(x, cb) ==
    IF x.closed THEN [x |-> x, out |-> "ClosedHandle"]
    ELSE LET y == WithCallbacks(x, Append(x.edgeCallbacks, cb))
         IN [x |-> IF ~y.pollInterval THEN startPolling(y) ELSE y, out |-> "ok"]

\* The body of GPIOInput.onEdge(cb) on the object x.
onEdge(x, cb) ==
    IF x.closed THEN [x |-> x, out |-> "ClosedHandle"]
    ELSE IF x.edge = "none" THEN [x |-> x, out |-> "EdgeDetectionDisabled"]
    ELSE LET y == WithCallbacks(x, Append(x.edgeCallbacks, cb))
         IN [x |-> IF ~y.pollInterval THEN startPolling(y) ELSE y, out |-> "ok"]

\* The body of GPIOInput.offEdge(cb) on the object x.
offEdge(x, cb) ==
    LET index == IndexOf(x.edgeCallbacks, cb)
        y == IF index # 0 THEN WithCallbacks(x, Splice(x.edgeCallbacks, index)) ELSE x
    IN IF Len(y.edgeCallbacks) = 0 /\ y.pollInterval THEN stopPolling(y) ELSE y

\* GPIOInput.onEdge(callback)
OnEdge(i, cb) ==
    /\ inObj[i].made
    /\ LET r == onEdge(inObj[i], cb)
       IN /\ r.out = "ok" => Len(inObj[i].edgeCallbacks) < MaxRegistered
          /\ inObj' = [inObj EXCEPT ![i] = r.x]
          /\ last' = Call("onEdge", r.out, <<>>, 0, 0)
    /\ UNCHANGED <<gpioState, outputs, outObj, lineBusy, inputs, soft, now, blocked,
                   faults, pwmVars>>

\* GPIOInput.offEdge(callback)
OffEdge(i, cb) ==
    /\ inObj[i].made
    /\ inObj' = [inObj EXCEPT ![i] = offEdge(inObj[i], cb)]
    /\ last' = Call("offEdge", "ok", <<>>, 0, 0)
    /\ UNCHANGED <<gpioState, outputs, outObj, lineBusy, inputs, soft, now, blocked,
                   faults, pwmVars>>

\* GPIOInput.read(): gpiod_line_request_get_value; a negative value throws.
InputRead(i, ioError) ==
    /\ inObj[i].made
    /\ IF inObj[i].closed
       THEN /\ ~ioError
            /\ last' = Call("read", "ClosedHandle", <<>>, 0, 0)
       ELSE last' = Call("read", IF ioError THEN "ReadFailed" ELSE "ok",
                         <<Ffi("gpiod_line_request_get_value", inObj[i].pin, ~ioError)>>,
                         0, 0)
    /\ faults' = faults + Cost(ioError)
    /\ UNCHANGED <<gpioVars, pwmVars>>

\* What a callback does when it is invoked: it returns, it throws, it removes
\* itself or it removes the other callback.
Behaviours == {"return", "throw", "offSelf", "offOther"}
OtherCb(cb) == CHOOSE k \in CbId : k # cb /\ \A j \in CbId : j # cb => k <= j

\* A callback may also call close() on the handle that invoked it.
ClosingBehaviours == Behaviours \cup {"close"}

\* The body of GPIOInput.close(): stopPolling, free the event buffer, release
\* the request (the kernel drops its queue), _closed, edgeCallbacks = [].
CloseInput(x, busy) ==
    IF ~x.closed
    THEN [x |-> [stopPolling(x) EXCEPT !.eventBuffer = FALSE, !.closed = TRUE,
                                       !.edgeCallbacks = <<>>, !.queue = <<>>],
          busy |-> busy \ {x.pin},
          log |-> (IF x.eventBuffer
                   THEN <<Ffi("gpiod_edge_event_buffer_free", x.pin, TRUE)>>
                   ELSE <<>>) \o <<Ffi("gpiod_line_request_release", x.pin, TRUE)>>]
    ELSE [x |-> x, busy |-> busy, log |-> <<>>]

\* The handle after callback cb, invoked with an event, behaved as b.
React(x, cb, b) ==
    CASE b = "offSelf" -> offEdge(x, cb)
      [] b = "offOther" -> offEdge(x, OtherCb(cb))
      [] b = "close" -> CloseInput(x, {}).x
      [] OTHER -> x

\* Mutant of CallbackErrorCaught: the callback is invoked outside any try block.
CallbackErrorEscapes == FALSE

\* try { callback(event) } catch (err) { console.error(...) }
CallbackErrorCaught == TRUE

\* for (const callback of this.edgeCallbacks) { ... } for one event: the array
\* iterator reads the array object arr by index, from index idx on.  offEdge
\* splices that object in place; close() assigns a new empty array to
\* edgeCallbacks, so the iterator stays on the old object.
RECURSIVE DispatchEvent(_, _, _, _, _, _)
DispatchEvent(x, arr, ev, idx, beh, acc) ==
    IF idx > Len(arr) THEN [x |-> x, calls |-> acc, threw |-> FALSE]
    ELSE LET cb == arr[idx]
             counted == IF x.steady THEN [x EXCEPT !.count[cb] = @ + 1] ELSE x
             y == React(counted, cb, beh[cb])
             sofar == Append(acc, W("callback", cb, ev, beh[cb] # "throw"))
                          \o (IF beh[cb] = "close" THEN CloseInput(counted, {}).log ELSE <<>>)
         IN IF beh[cb] = "throw" /\ ~CallbackErrorCaught
            THEN [x |-> y, calls |-> sofar, threw |-> TRUE]
            ELSE DispatchEvent(y, IF y.closed THEN arr ELSE y.edgeCallbacks,
                               ev, idx + 1, beh, sofar)

\* for (let i = 0; i < count; i++) { readEventFromBuffer(i); ... }.  Once a
\* callback has closed the handle, eventBuffer is null and the buffer is freed:
\* readEventFromBuffer passes the null pointer to
\* gpiod_edge_event_buffer_get_event, which is undefined behaviour -- the
\* process crashes (crash) or the call returns some event and the loop goes on.
RECURSIVE DispatchAll(_, _, _, _, _, _)
DispatchAll(x, events, k, beh, acc, crash) ==
    IF k > Len(events) THEN [x |-> x, calls |-> acc, threw |-> FALSE, crashed |-> FALSE]
    ELSE LET freed == ~x.eventBuffer
             read == IF freed
                     THEN Append(acc, W("gpiod_edge_event_buffer_get_event",
                                        x.pin, events[k], FALSE))
                     ELSE acc
             d == DispatchEvent(x, x.edgeCallbacks, events[k], 1, beh, read)
         IN IF freed /\ crash
            THEN [x |-> x, calls |-> read, threw |-> FALSE, crashed |-> TRUE]
            ELSE IF d.threw
            THEN [x |-> d.x, calls |-> d.calls, threw |-> TRUE, crashed |-> FALSE]
            ELSE DispatchAll(d.x, events, k + 1, beh, d.calls, crash)

\* Mutant of ReadEvents: every pending event is read, whatever the capacity.
ReadEventsAll(queue, max) == queue

\* gpiod_line_request_read_edge_events(request, buffer, max): the events read.
ReadEvents(queue, max) == SubSeq(queue, 1, IF Len(queue) < max THEN Len(queue) ELSE max)

\* One firing of the interval made by startPolling(), with what each callback
\* does when invoked (beh) and whether the wait call reports an error.
PollTick(i, beh, ioError) ==
    /\ inObj[i].timers > 0
    /\ LET x == inObj[i]
           waitLog == <<Ffi("gpiod_line_request_wait_edge_events", x.pin, ~ioError)>>
           events == ReadEvents(x.queue, EventBufferSize)
           readLog == <<W("gpiod_line_request_read_edge_events", x.pin, Len(events), TRUE)>>
       IN IF x.closed \/ Len(x.edgeCallbacks) = 0
          THEN /\ ~ioError
               /\ beh = [k \in CbId |-> "return"]
               /\ inObj' = [inObj EXCEPT ![i] = stopPolling(x)]
               /\ last' = Call("tick", "stopped", <<>>, 0, 0)
               /\ UNCHANGED lineBusy
          ELSE IF ioError \/ Len(x.queue) = 0
          THEN /\ beh = [k \in CbId |-> "return"]
               /\ last' = Call("tick", "ok", waitLog, 0, 0)
               /\ UNCHANGED <<inObj, lineBusy>>
          ELSE \E crash \in BOOLEAN :
                   LET d == DispatchAll([x EXCEPT !.queue = SubSeq(@, Len(events) + 1, Len(@))],
                                        events, 1, beh, <<>>, crash)
                   IN /\ crash = d.crashed
                      /\ inObj' = [inObj EXCEPT ![i] = d.x]
                      /\ lineBusy' = IF d.x.closed THEN lineBusy \ {x.pin} ELSE lineBusy
                      /\ last' = Call("tick", IF d.crashed THEN "Crash"
                                              ELSE IF d.threw THEN "UncaughtError" ELSE "ok",
                                      waitLog \o readLog \o d.calls, 0, 0)
    /\ faults' = faults + Cost(ioError)
    /\ UNCHANGED <<gpioState, outputs, outObj, inputs, soft, now, blocked, pwmVars>>

\* Timeouts offered to waitForEdge: none given, a negative integer, 0, a
\* positive integer, and a positive number that is not an integer (0.5).
WaitArgs == {"absent", "negative", "zero", "positive", "fraction"}

\* The FFI calls of reading one event and decoding it (readEventFromBuffer(0)).
ReadOneLog(x) ==
    <<W("gpiod_line_request_read_edge_events", x.pin, 1, TRUE),
      W("gpiod_edge_event_buffer_get_event", x.pin, Head(x.queue), TRUE)>>

\* The handle after a single-wait read the event at the head of the queue.
TakeOne(x) ==
    [x EXCEPT !.queue = Tail(@), !.steady = FALSE, !.count = [k \in CbId |-> 0]]

\* GPIOInput.waitForEdge(timeoutMs) up to the point where the thread is inside
\* gpiod_line_request_wait_edge_events; with timeout 0 the FFI call returns at
\* once and the call completes here.  BigInt(timeoutMs) throws a RangeError for
\* a number that is not an integer.
WaitForEdge(i, t, ioError) ==
    /\ inObj[i].made
    /\ LET x == inObj[i]
           waitLog == <<Ffi("gpiod_line_request_wait_edge_events", x.pin, ~ioError)>>
       IN IF x.closed \/ x.edge = "none" \/ t = "fraction"
          THEN /\ ~ioError
               /\ last' = Call("waitForEdge",
                               IF x.closed THEN "ClosedHandle"
                               ELSE IF x.edge = "none" THEN "EdgeDetectionDisabled"
                               ELSE "RangeError", <<>>, 0, 0)
               /\ UNCHANGED <<inObj, blocked>>
          ELSE IF t # "zero"
          THEN /\ ~ioError
               /\ blocked' = [inp |-> i, t |-> t, via |-> "waitForEdge"]
               /\ last' = Call("waitForEdge", "waiting", <<>>, 0, 0)
               /\ UNCHANGED inObj
          ELSE IF ioError
          THEN /\ last' = Call("waitForEdge", "WaitFailed", waitLog, 0, 0)
               /\ UNCHANGED <<inObj, blocked>>
          ELSE IF Len(x.queue) = 0
          THEN /\ last' = Call("waitForEdge", "null", waitLog, 0, 0)
               /\ UNCHANGED <<inObj, blocked>>
          ELSE /\ inObj' = [inObj EXCEPT ![i] = TakeOne(x)]
               /\ last' = Call("waitForEdge", "event", waitLog \o ReadOneLog(x), 0, 0)
               /\ UNCHANGED blocked
    /\ faults' = faults + Cost(ioError)
    /\ UNCHANGED <<gpioState, outputs, outObj, lineBusy, inputs, soft, now, pwmVars>>

\* gpiod_line_request_wait_edge_events returns to the blocked thread: 1 when an
\* event is pending, 0 when a positive timeout ran out with none pending, -1 on
\* an error; then the rest of waitForEdge runs.  Inside edges() a null result
\* re-enters the wait, an event is yielded, an error ends the generator.
WaitReturn(result) ==
    /\ blocked # NoWait
    /\ LET i == blocked.inp
           x == inObj[i]
           op == blocked.via
           waitLog == <<Ffi("gpiod_line_request_wait_edge_events", x.pin, result # "error")>>
       IN CASE result = "event" ->
                 /\ Len(x.queue) > 0
                 /\ inObj' = [inObj EXCEPT ![i] =
                                 [TakeOne(x) EXCEPT !.gen = IF op = "edges" THEN "yield" ELSE @]]
                 /\ last' = Call(op, "event", waitLog \o ReadOneLog(x), 0, 0)
            [] result = "timeout" ->
                 /\ Len(x.queue) = 0
                 /\ blocked.t = "positive"
                 /\ op = "waitForEdge"
                 /\ last' = Call(op, "null", waitLog, 0, 0)
                 /\ UNCHANGED inObj
            [] result = "error" ->
                 /\ FaultsLeft > 0
                 /\ inObj' = [inObj EXCEPT ![i].gen = IF op = "edges" THEN "done" ELSE @]
                 /\ last' = Call(op, "WaitFailed", waitLog, 0, 0)
    /\ blocked' = NoWait
    /\ faults' = faults + Cost(result = "error")
    /\ UNCHANGED <<gpioState, outputs, outObj, lineBusy, inputs, soft, now, pwmVars>>

\* GPIOInput.edges(): makes the generator object; no line of its body runs yet.
Edges(i) ==
    /\ inObj[i].made
    /\ inObj[i].gen \in {"none", "done"}
    /\ inObj' = [inObj EXCEPT ![i].gen = "start"]
    /\ last' = Call("edges", "ok", <<>>, 0, 0)
    /\ UNCHANGED <<gpioState, outputs, outObj, lineBusy, inputs, soft, now, blocked,
                   faults, pwmVars>>

\* next() on the generator of edges(): from the start the two checks run first;
\* then `while (!this._closed) { await this.waitForEdge(100) ... }`.
EdgesNext(i) ==
    /\ inObj[i].made
    /\ inObj[i].gen \in {"start", "yield"}
    /\ LET x == inObj[i]
       IN IF x.gen = "start" /\ (x.closed \/ x.edge = "none")
          THEN /\ inObj' = [inObj EXCEPT ![i].gen = "done"]
               /\ last' = Call("edges", IF x.closed THEN "ClosedHandle"
                                        ELSE "EdgeDetectionDisabled", <<>>, 0, 0)
               /\ UNCHANGED blocked
          ELSE IF x.closed
          THEN /\ inObj' = [inObj EXCEPT ![i].gen = "done"]
               /\ last' = Call("edges", "done", <<>>, 0, 0)
               /\ UNCHANGED blocked
          ELSE /\ inObj' = [inObj EXCEPT ![i].gen = "running"]
               /\ blocked' = [inp |-> i, t |-> "positive", via |-> "edges"]
               /\ last' = Call("edges", "waiting", <<>>, 0, 0)
    /\ UNCHANGED <<gpioState, outputs, outObj, lineBusy, inputs, soft, now, faults, pwmVars>>

RECURSIVE SumArrived(_)
SumArrived(k) == IF k = 0 THEN 0 ELSE inObj[k].arrived + SumArrived(k - 1)

\* The kernel detects n edges on the line of handle i before the program runs
\* again and queues an event for each (at most max events in one run).
EdgeArrives(i, n, max) ==
    /\ inObj[i].made /\ ~inObj[i].closed /\ inObj[i].edge # "none"
    /\ SumArrived(MaxInputs) + n <= max
    /\ inObj' = [inObj EXCEPT ![i].arrived = @ + n,
                              ![i].queue = @ \o [k \in 1..n |-> inObj[i].arrived + k]]
    /\ UNCHANGED <<gpioState, outputs, outObj, lineBusy, inputs, soft, now, blocked,
                   faults, last, pwmVars>>

\* GPIOInput.close()
InputClose(i) ==
    /\ inObj[i].made
    /\ LET r == CloseInput(inObj[i], lineBusy)
       IN /\ inObj' = [inObj EXCEPT ![i] = r.x]
          /\ lineBusy' = r.busy
          /\ last' = Call("GPIOInput.close", "ok", r.log, 0, 0)
    /\ UNCHANGED <<gpioState, outputs, outObj, inputs, soft, now, blocked, faults, pwmVars>>

\* The loop of GPIO.close() over this.outputs.
RECURSIVE CloseOutputs(_, _, _, _)
CloseOutputs(ids, i, objs, busy) ==
    IF i > Len(ids) THEN [objs |-> objs, busy |-> busy, log |-> <<>>]
    ELSE LET r == CloseOutput(objs[ids[i]], busy)
             rest == CloseOutputs(ids, i + 1, [objs EXCEPT ![ids[i]] = r.o], r.busy)
         IN [rest EXCEPT !.log = r.log \o @]

\* The loop of GPIO.close() over this.inputs.
RECURSIVE CloseInputs(_, _, _, _)
CloseInputs(ids, i, objs, busy) ==
    IF i > Len(ids) THEN [objs |-> objs, busy |-> busy, log |-> <<>>]
    ELSE LET r == CloseInput(objs[ids[i]], busy)
             rest == CloseInputs(ids, i + 1, [objs EXCEPT ![ids[i]] = r.x], r.busy)
         IN [rest EXCEPT !.log = r.log \o @]

\* GPIO.close()
GPIOClose(g) ==
    /\ gpioState[g] # "unborn"
    /\ IF gpioState[g] # "closed"
       THEN LET o == CloseOutputs(outputs[g], 1, outObj, lineBusy)
                n == CloseInputs(inputs[g], 1, inObj, o.busy)
            IN /\ outObj' = o.objs
               /\ inObj' = n.objs
               /\ lineBusy' = n.busy
               /\ outputs' = [outputs EXCEPT ![g] = <<>>]
               /\ inputs' = [inputs EXCEPT ![g] = <<>>]
               /\ gpioState' = [gpioState EXCEPT ![g] = "closed"]
               /\ last' = Call("GPIO.close", "ok",
                               o.log \o n.log \o <<Ffi("gpiod_chip_close", 0, TRUE)>>, 0, 0)
       ELSE /\ last' = Call("GPIO.close", "ok", <<>>, 0, 0)
            /\ UNCHANGED <<gpioState, outputs, outObj, lineBusy, inputs, inObj>>
    /\ UNCHANGED <<soft, now, blocked, faults, pwmVars>>

\* ------------------------------------------------------------ SoftwarePWM
\* Mutant of writeIfChanged: the level is written on every tick.
writeAlways(e, o, target) ==
    LET w == SetValue(o, "write", target)
    IN IF w.out # "ok"
       THEN [e |-> e, o |-> o, log |-> w.log, out |-> w.out]
       ELSE [e |-> [e EXCEPT !.lastState = target], o |-> w.o, log |-> w.log,
             out |-> "ok"]

\* `if (target !== this.lastState) { this.output.write(target); this.lastState =
\* target; }` on engine e with output object o.  output.write throws on a closed
\* output, before lastState is assigned.
writeIfChanged(e, o, target) ==
    LET w == SetValue(o, "write", target)
    IN IF target = e.lastState
       THEN [e |-> e, o |-> o, log |-> <<>>, out |-> "ok"]
       ELSE IF w.out # "ok"
       THEN [e |-> e, o |-> o, log |-> w.log, out |-> w.out]
       ELSE [e |-> [e EXCEPT !.lastState = target], o |-> w.o, log |-> w.log,
             out |-> "ok"]

\* const periodNs = 1_000_000_000 / this._frequencyHz (the quotient is exact for
\* the frequencies of SoftFrequencies).
SoftPeriodNs(f) == NsPerSec \div f

\* Mutant of tick: the always-off and always-on cases are not singled out and
\* the level is high while elapsed / period <= duty ratio.
tickInclusive(e, o, t) ==
    IF e.closed THEN [e |-> e, o |-> o, log |-> <<>>, out |-> "ok"]
    ELSE LET periodNs == SoftPeriodNs(e.frequencyHz)
             elapsed == t - e.cycleStartNs
             completedCycles == elapsed \div periodNs
             cycleStartNs == IF elapsed >= periodNs
                             THEN e.cycleStartNs + completedCycles * periodNs
                             ELSE e.cycleStartNs
             elapsedNs == t - cycleStartNs
             shouldBeHigh == elapsedNs * RatioDen <= e.dutyCycle * periodNs
         IN writeIfChanged([e EXCEPT !.cycleStartNs = cycleStartNs], o, shouldBeHigh)

\* Mutant of tick: a completed cycle moves the anchor by one period only.
tickOnePeriod(e, o, t) ==
    IF e.closed THEN [e |-> e, o |-> o, log |-> <<>>, out |-> "ok"]
    ELSE IF e.dutyCycle <= 0 THEN writeIfChanged(e, o, FALSE)
    ELSE IF e.dutyCycle >= RatioDen THEN writeIfChanged(e, o, TRUE)
    ELSE LET periodNs == SoftPeriodNs(e.frequencyHz)
             elapsed == t - e.cycleStartNs
             cycleStartNs == IF elapsed >= periodNs
                             THEN e.cycleStartNs + periodNs
                             ELSE e.cycleStartNs
             elapsedNs == t - cycleStartNs
             shouldBeHigh == elapsedNs * RatioDen < e.dutyCycle * periodNs
         IN writeIfChanged([e EXCEPT !.cycleStartNs = cycleStartNs], o, shouldBeHigh)

\* One run of SoftwarePWM.tick() on engine e with output object o when the clock
\* reads t.  The cycle anchor is moved forward by the completed cycles, then the
\* level is high while elapsed / period < duty ratio (duty is e.dutyCycle over
\* RatioDen, so the comparison is made after multiplying both sides out).
tick(e, o, t) ==
    IF e.closed THEN [e |-> e, o |-> o, log |-> <<>>, out |-> "ok"]
    ELSE IF e.dutyCycle <= 0 THEN writeIfChanged(e, o, FALSE)
    ELSE IF e.dutyCycle >= RatioDen THEN writeIfChanged(e, o, TRUE)
    ELSE LET periodNs == SoftPeriodNs(e.frequencyHz)
             elapsed == t - e.cycleStartNs
             completedCycles == elapsed \div periodNs
             cycleStartNs == IF elapsed >= periodNs
                             THEN e.cycleStartNs + completedCycles * periodNs
                             ELSE e.cycleStartNs
             elapsedNs == t - cycleStartNs
             shouldBeHigh == elapsedNs * RatioDen < e.dutyCycle * periodNs
         IN writeIfChanged([e EXCEPT !.cycleStartNs = cycleStartNs], o, shouldBeHigh)

\* Mutant of SoftNew: the duty ratio is not validated.
SoftNewAnyRatio(s, id, f, r) ==
    /\ ~soft[s].made
    /\ outObj[id].made
    /\ IF ~FrequencyOk(f)
       THEN /\ last' = Call("new SoftwarePWM", "InvalidParameter", <<>>, 0, 0)
            /\ UNCHANGED <<soft, outObj>>
       ELSE LET e == [made |-> TRUE, output |-> id, dutyCycle |-> r, frequencyHz |-> f,
                      closed |-> FALSE, timer |-> TRUE, cycleStartNs |-> now,
                      lastState |-> FALSE]
                k == tick(e, outObj[id], now)
            IN /\ soft' = [soft EXCEPT ![s] = k.e]
               /\ outObj' = [outObj EXCEPT ![id] = k.o]
               /\ last' = Call("new SoftwarePWM", k.out, k.log, 0, 0)
    /\ UNCHANGED <<gpioState, outputs, lineBusy, inputs, inObj, blocked, now,
                   faults, pwmVars>>

\* new SoftwarePWM(output, {frequencyHz, dutyCycle}): validation, the cycle
\* anchor is set to the clock, then start(): setInterval and a first tick at once.
SoftNew(s, id, f, r) ==
    /\ ~soft[s].made
    /\ outObj[id].made
    /\ IF ~RatioOk(r) \/ ~FrequencyOk(f)
       THEN /\ last' = Call("new SoftwarePWM", "InvalidParameter", <<>>, 0, 0)
            /\ UNCHANGED <<soft, outObj>>
       ELSE LET e == [made |-> TRUE, output |-> id, dutyCycle |-> r, frequencyHz |-> f,
                      closed |-> FALSE, timer |-> TRUE, cycleStartNs |-> now,
                      lastState |-> FALSE]
                k == tick(e, outObj[id], now)
            IN /\ soft' = [soft EXCEPT ![s] = k.e]
               /\ outObj' = [outObj EXCEPT ![id] = k.o]
               /\ last' = Call("new SoftwarePWM", k.out, k.log, 0, 0)
    /\ UNCHANGED <<gpioState, outputs, lineBusy, inputs, inObj, blocked, now,
                   faults, pwmVars>>

\* One firing of the interval made by start().
SoftTick(s) ==
    /\ soft[s].made /\ soft[s].timer
    /\ LET k == tick(soft[s], outObj[soft[s].output], now)
       IN /\ soft' = [soft EXCEPT ![s] = k.e]
          /\ outObj' = [outObj EXCEPT ![soft[s].output] = k.o]
          /\ last' = Call("SoftwarePWM.tick", k.out, k.log, 0, 0)
    /\ UNCHANGED <<gpioState, outputs, lineBusy, inputs, inObj, blocked, now,
                   faults, pwmVars>>

\* SoftwarePWM.setDutyCycle(ratio)
SoftSetDutyCycle(s, r) ==
    /\ soft[s].made
    /\ IF soft[s].closed
       THEN /\ last' = Call("SoftwarePWM.setDutyCycle", "ClosedHandle", <<>>, 0, 0)
            /\ UNCHANGED soft
       ELSE IF ~RatioOk(r)
       THEN /\ last' = Call("SoftwarePWM.setDutyCycle", "InvalidParameter", <<>>, 0, 0)
            /\ UNCHANGED soft
       ELSE /\ soft' = [soft EXCEPT ![s].dutyCycle = r]
            /\ last' = Call("SoftwarePWM.setDutyCycle", "ok", <<>>, 0, 0)
    /\ UNCHANGED <<gpioState, outputs, outObj, lineBusy, inputs, inObj, blocked, now,
                   faults, pwmVars>>

\* Mutant of SoftSetFrequency: the cycle is restarted at the clock reading.
SoftSetFrequencyRestart(s, f) ==
    /\ soft[s].made
    /\ IF soft[s].closed
       THEN /\ last' = Call("SoftwarePWM.setFrequency", "ClosedHandle", <<>>, 0, 0)
            /\ UNCHANGED soft
       ELSE IF ~FrequencyOk(f)
       THEN /\ last' = Call("SoftwarePWM.setFrequency", "InvalidParameter", <<>>, 0, 0)
            /\ UNCHANGED soft
       ELSE /\ soft' = [soft EXCEPT ![s].frequencyHz = f, ![s].cycleStartNs = now]
            /\ last' = Call("SoftwarePWM.setFrequency", "ok", <<>>, 0, 0)
    /\ UNCHANGED <<gpioState, outputs, outObj, lineBusy, inputs, inObj, blocked, now,
                   faults, pwmVars>>

\* SoftwarePWM.setFrequency(frequencyHz)
SoftSetFrequency(s, f) ==
    /\ soft[s].made
    /\ IF soft[s].closed
       THEN /\ last' = Call("SoftwarePWM.setFrequency", "ClosedHandle", <<>>, 0, 0)
            /\ UNCHANGED soft
       ELSE IF ~FrequencyOk(f)
       THEN /\ last' = Call("SoftwarePWM.setFrequency", "InvalidParameter", <<>>, 0, 0)
            /\ UNCHANGED soft
       ELSE /\ soft' = [soft EXCEPT ![s].frequencyHz = f]
            /\ last' = Call("SoftwarePWM.setFrequency", "ok", <<>>, 0, 0)
    /\ UNCHANGED <<gpioState, outputs, outObj, lineBusy, inputs, inObj, blocked, now,
                   faults, pwmVars>>

\* SoftwarePWM.close(): _closed, clearInterval, output.write(false), lastState.
SoftClose(s) ==
    /\ soft[s].made
    /\ IF soft[s].closed
       THEN /\ last' = Call("SoftwarePWM.close", "ok", <<>>, 0, 0)
            /\ UNCHANGED <<soft, outObj>>
       ELSE LET w == SetValue(outObj[soft[s].output], "write", FALSE)
            IN /\ soft' = [soft EXCEPT ![s].closed = TRUE, ![s].timer = FALSE,
                                       ![s].lastState = IF w.out = "ok" THEN FALSE ELSE @]
               /\ outObj' = [outObj EXCEPT ![soft[s].output] = w.o]
               /\ last' = Call("SoftwarePWM.close", w.out, w.log, 0, 0)
    /\ UNCHANGED <<gpioState, outputs, lineBusy, inputs, inObj, blocked, now,
                   faults, pwmVars>>

\* The clock advances by one step while an engine is running, up to max steps
\* from the start of the process.
TimePasses(max) ==
    /\ \E s \in SoftId : soft[s].made /\ ~soft[s].closed
    /\ now + ClockStepNs <= max * ClockStepNs
    /\ now' = now + ClockStepNs
    /\ UNCHANGED <<gpioState, outputs, outObj, lineBusy, inputs, inObj, soft, blocked,
                   faults, last, pwmVars>>

\* ----------------------------------------------------------- specification
Next ==
    \/ \E c \in Ctrl, chipOk \in {~b : b \in IoErrors} : PWMNew(c, chipOk)
    \/ \E c \in Ctrl, ch \in Chan, a \in ChannelArgs : Channel(c, ch, a[1], a[2])
    \/ \E c \in Ctrl, ch \in Chan, r \in RatioInputs, ioError \in IoErrors :
           SetDutyCycle(c, ch, r, ioError)
    \/ \E c \in Ctrl, ch \in Chan, f \in FreqInputs,
          failAt \in {0} \cup {k \in 1..2 : FaultsLeft > 0} :
           SetFrequency(c, ch, f, failAt)
    \/ \E c \in Ctrl, ch \in Chan, ioError \in IoErrors : ChannelClose(c, ch, ioError)
    \/ \E c \in Ctrl, disableErr \in SUBSET Chan, unexportErr \in SUBSET Chan :
           PWMClose(c, disableErr, unexportErr)

Spec == Init /\ [][Next]_vars

\* Handles made so far.
NumInputs == Cardinality({i \in InId : inObj[i].made})

NumOutputs == Cardinality({id \in OutId : outObj[id].made})

\* Engines made so far.
NumEngines == Cardinality({e \in SoftId : soft[e].made})

\* Leases and releases of lines through the controllers in G.
LeaseCalls(G) ==
    \/ \E g \in G, chipOk \in {~b : b \in IoErrors} : GPIONew(g, chipOk)
    \/ \E g \in G, pin \in Pin, initialValue \in BOOLEAN, ioError \in IoErrors :
           Output(g, pin, initialValue, ioError)
    \/ \E g \in G, pin \in Pin, edge \in EdgeSettings, ioError \in IoErrors :
           Input(g, pin, edge, ioError)
    \/ \E id \in OutId : OutputClose(id)
    \/ \E i \in InId : InputClose(i)
    \/ \E g \in G : GPIOClose(g)

\* The other calls on the controllers in G and on the line handles as such.
HandleCalls(G) ==
    \/ \E g \in G, which \in {"getChipInfo", "getLineInfo", "findPin"},
          ioError \in IoErrors : Query(g, which, ioError)
    \/ \E id \in OutId, a \in OutputOps : OutputSet(id, a[1], a[2])
    \/ \E i \in InId, ioError \in IoErrors : InputRead(i, ioError)

\* Calls of the three ways to consume edge events on the handles in I with the
\* callbacks in K, and the poll timers that are due.
EdgeCalls(I, K) ==
    \/ \E i \in I, cb \in K : OnEdge(i, cb)
    \/ \E i \in I, cb \in K : OffEdge(i, cb)
    \/ \E i \in I, beh \in [CbId -> Behaviours], ioError \in IoErrors :
           PollTick(i, beh, ioError)
    \/ \E i \in I, t \in WaitArgs, ioError \in IoErrors : WaitForEdge(i, t, ioError)
    \/ \E i \in I : Edges(i)
    \/ \E i \in I : EdgesNext(i)

\* Calls on the software PWM engines with constructor arguments in A, ratios
\* in R and frequencies in F, and their timers that are due.
SoftCalls(A, R, F) ==
    \/ \E s \in SoftId, id \in OutId, a \in A : SoftNew(s, id, a[1], a[2])
    \/ \E s \in SoftId : SoftTick(s)
    \/ \E s \in SoftId, r \in R : SoftSetDutyCycle(s, r)
    \/ \E s \in SoftId, f \in F : SoftSetFrequency(s, f)
    \/ \E s \in SoftId : SoftClose(s)

\* The default arguments of SoftwarePWM, and each of them replaced by one that
\* is rejected.
SoftArgs ==
    {<<SoftDefaultFrequencyHz, RatioDen \div 2>>, <<0, RatioDen \div 2>>,
     <<SoftDefaultFrequencyHz, RatioDen + 1>>}

\* The JavaScript thread is not inside a blocking FFI call: bun:ffi calls are
\* synchronous, and the runtime runs calls, timer callbacks and continuations
\* only on this one thread.
ThreadFree == blocked = NoWait

\* The runtime fires the poll interval of input handle i.
PollFires(i) ==
    ThreadFree /\ \E beh \in [CbId -> Behaviours], ioError \in IoErrors : PollTick(i, beh, ioError)

\* The program calls close() on input handle i: like every call, it is made
\* by JavaScript running on the thread.
CloseRuns(i) == ThreadFree /\ InputClose(i)

\* The runtime fires the tick interval of software PWM engine s.
SoftFires(s) == ThreadFree /\ SoftTick(s)

\* Leases and releases on controllers that share the chip, with at most
\* MaxHandles line handles in all.
LeaseNext == LeaseCalls(Ctrl) /\ NumInputs' + NumOutputs' <= MaxHandles

SpecLease == Init /\ [][LeaseNext]_vars

\* One GPIO controller, its handles and the software PWM, with a kernel that
\* detects no edge, in a run shorter than one step of the clock.  A run has
\* either an input handle or a software PWM engine.
\* The thread runs JavaScript only while it is not inside a blocking FFI call.
GPIONext ==
    \/ /\ ThreadFree
       /\ \/ LeaseCalls({1}) /\ NumInputs' <= (IF NumEngines = 0 THEN 1 ELSE 0)
          \/ HandleCalls({1})
          \/ EdgeCalls({1}, {1})
          \/ NumInputs = 0 /\ SoftCalls(SoftArgs, {RatioDen \div 2, RatioDen + 1},
                                        {0, SoftDefaultFrequencyHz})
    \/ \E result \in {"timeout"} : WaitReturn(result)

SpecGPIO == Init /\ [][GPIONext]_vars

\* The edge pipeline of one input handle on one controller: callbacks, poll
\* ticks and the non-blocking single-wait.  The first FewEvents events arrive
\* one by one; otherwise events arrive in a burst that fills the event buffer.
EdgeNext ==
    \/ GPIONew(1, TRUE)
    \/ \E pin \in {0} : Input(1, pin, "both", FALSE) /\ NumInputs' <= 1
    \/ InputClose(1)
    \/ \E cb \in CbId : OnEdge(1, cb)
    \/ \E cb \in CbId : OffEdge(1, cb)
    \/ \E beh \in [CbId -> Behaviours], ioError \in IoErrors : PollTick(1, beh, ioError)
    \/ WaitForEdge(1, "zero", FALSE)
    \/ /\ inObj[1].arrived < FewEvents \/ inObj[1].arrived >= EventBufferSize
       /\ EdgeArrives(1, 1, MaxEvents)
    \/ EdgeArrives(1, EventBufferSize, MaxEvents)

SpecEdge == Init /\ [][EdgeNext]_vars

\* The edge pipeline of one input handle whose callbacks may also close the
\* handle, with few events.  A crash ends the process.
ClosingNext ==
    /\ last.out # "Crash"
    /\ \/ GPIONew(1, TRUE)
       \/ \E pin \in {0} : Input(1, pin, "both", FALSE) /\ NumInputs' <= 1
       \/ InputClose(1)
       \/ \E cb \in CbId : OnEdge(1, cb)
       \/ \E cb \in CbId : OffEdge(1, cb)
       \/ \E beh \in [CbId -> ClosingBehaviours], ioError \in IoErrors :
              PollTick(1, beh, ioError)
       \/ EdgeArrives(1, 1, FewEvents)

SpecClosing == Init /\ [][ClosingNext]_vars

\* Several handles and a software PWM engine side by side, with few events, in a
\* run shorter than one step of the clock.
WaitNext ==
    \/ /\ ThreadFree
       /\ \/ GPIONew(1, TRUE)
          \/ \E pin \in Pin : Input(1, pin, "both", FALSE)
          \/ \E pin \in Pin : Output(1, pin, FALSE, FALSE)
          \/ EdgeCalls(InId, {1})
          \/ \E s \in SoftId, id \in OutId :
                 SoftNew(s, id, SoftDefaultFrequencyHz, RatioDen \div 2)
          \/ \E s \in SoftId : SoftFires(s)
    \/ \E i \in InId : EdgeArrives(i, 1, FewEvents)
    \/ \E result \in {"event", "timeout", "error"} : WaitReturn(result)

SpecWait == Init /\ [][WaitNext]_vars

\* Frequencies and duty ratios given to the software PWM: the default frequency
\* and its double, every ratio from 0 to 1 in steps of 1 / RatioDen, and one
\* rejected value on each side.
SoftFrequencies == {SoftDefaultFrequencyHz, 2 * SoftDefaultFrequencyHz}
SoftFreqInputs == {0} \cup SoftFrequencies
SoftRatioInputs == (-1)..(RatioDen + 1)

\* The software PWM on one output line, with the clock running: the engine, its
\* ticks at any clock reading, the setters, and the output handle used and closed
\* behind the engine's back.
SoftNext ==
    \/ GPIONew(1, TRUE)
    \/ \E initialValue \in BOOLEAN : Output(1, 0, initialValue, FALSE) /\ NumOutputs' <= 1
    \/ \E id \in OutId : OutputClose(id)
    \/ GPIOClose(1)
    \/ \E id \in OutId, a \in OutputOps : OutputSet(id, a[1], a[2])
    \/ SoftCalls(SoftFreqInputs \X SoftRatioInputs, SoftRatioInputs, SoftFreqInputs)
    \/ TimePasses(MaxClockSteps)

SpecSoft == Init /\ [][SoftNext]_vars

\* The whole library in a process that uses either the PWM chip or the GPIO chip.
AllNext ==
    \/ (\A g \in Ctrl : gpioState[g] = "unborn") /\ Next
    \/ (\A c \in Ctrl : pwmState[c] = "unborn") /\ GPIONext

SpecAll == Init /\ [][AllNext]_vars

\* ------------------------------------------------------------------ claims
\* Rounding to the nearest integer, halves up, of a / b (a >= 0, b > 0), stated
\* on its own: quotient plus one when the remainder is at least half of b.
RoundHalfUp(a, b) == (a \div b) + (IF 2 * (a % b) >= b THEN 1 ELSE 0)

\* The step just taken is a call of `op` that returned normally.
Returned(op) == last'.op = op /\ last'.out = "ok"

\* C1: every successful channel(f, r), setFrequency(f) and setDutyCycle(r) on a
\* handle leaves the duty_cycle file at round(periodNs * dutyCycle) and periodNs
\* at round(1e9 / f) for the most recent frequency f: the acquisition and
\* setFrequency set periodNs from their f, setDutyCycle keeps it, and no other
\* step changes the periodNs of an existing handle.
C1_DutyAndPeriodDerived ==
    [][/\ Returned("channel") =>
            \A c \in Ctrl, ch \in Chan, a \in ChannelArgs :
                Channel(c, ch, a[1], a[2]) =>
                    /\ handles'[c][ch].periodNs = RoundHalfUp(NsPerSec, a[1])
                    /\ handles'[c][ch].dutyCycle = a[2]
                    /\ sysfs'[ch].duty_cycle =
                           RoundHalfUp(handles'[c][ch].periodNs * a[2], RatioDen)
       /\ Returned("setFrequency") =>
            \A c \in Ctrl, ch \in Chan, f \in FreqInputs :
                SetFrequency(c, ch, f, 0) =>
                    /\ handles'[c][ch].periodNs = RoundHalfUp(NsPerSec, f)
                    /\ sysfs'[ch].duty_cycle =
                           RoundHalfUp(handles'[c][ch].periodNs * handles'[c][ch].dutyCycle,
                                       RatioDen)
       /\ Returned("setDutyCycle") =>
            \A c \in Ctrl, ch \in Chan, r \in RatioInputs :
                SetDutyCycle(c, ch, r, FALSE) =>
                    /\ handles'[c][ch].periodNs = handles[c][ch].periodNs
                    /\ handles'[c][ch].dutyCycle = r
                    /\ sysfs'[ch].duty_cycle =
                           RoundHalfUp(handles'[c][ch].periodNs * r, RatioDen)
       /\ ~Returned("channel") /\ ~Returned("setFrequency") =>
            \A c \in Ctrl, ch \in Chan :
                handles[c][ch].made => handles'[c][ch].periodNs = handles[c][ch].periodNs
      ]_vars

\* C1 witness: a 3000 Hz channel at ratio 1/2 after a successful setFrequency:
\* the period was rounded down (333333.33) and the duty up (166666.5).
C1_Witness ==
    /\ last.op = "setFrequency" /\ last.out = "ok"
    /\ \E c \in Ctrl, ch \in Chan :
          /\ handles[c][ch].made /\ ~handles[c][ch].closed
          /\ 2 * handles[c][ch].dutyCycle = RatioDen
          /\ handles[c][ch].periodNs = 333333
          /\ sysfs[ch].duty_cycle = 166667

\* C2: setDutyCycle attempts a write to duty_cycle of its channel and to nothing
\* else, and leaves periodNs as it was; a successful setFrequency(f) writes
\* period = round(1e9 / f) and then duty_cycle = round(newPeriod * oldRatio), in
\* that order, and leaves the stored ratio as it was.
C2_SetterWritesAndFrame ==
    [][/\ last'.op = "setDutyCycle" =>
            \A c \in Ctrl, ch \in Chan, r \in RatioInputs, ioError \in BOOLEAN :
                SetDutyCycle(c, ch, r, ioError) =>
                    /\ Len(last'.writes) <= 1
                    /\ \A i \in 1..Len(last'.writes) :
                           last'.writes[i].file = "duty_cycle" /\ last'.writes[i].ch = ch
                    /\ handles'[c][ch].periodNs = handles[c][ch].periodNs
                    /\ sysfs' = [sysfs EXCEPT ![ch].duty_cycle = sysfs'[ch].duty_cycle]
                    /\ last'.out = "ok" =>
                           last'.writes =
                               <<W("duty_cycle", ch,
                                   RoundHalfUp(handles[c][ch].periodNs * r, RatioDen), TRUE)>>
       /\ Returned("setFrequency") =>
            \A c \in Ctrl, ch \in Chan, f \in FreqInputs :
                SetFrequency(c, ch, f, 0) =>
                    /\ last'.writes =
                           <<W("period", ch, RoundHalfUp(NsPerSec, f), TRUE),
                             W("duty_cycle", ch,
                               RoundHalfUp(RoundHalfUp(NsPerSec, f) * handles[c][ch].dutyCycle,
                                           RatioDen), TRUE)>>
                    /\ handles'[c][ch].dutyCycle = handles[c][ch].dutyCycle
      ]_vars

\* C2 witness: a successful setFrequency that changed the period file of a
\* channel held at ratio 1/2, so that the duty written is half the new period.
C2_Witness ==
    /\ last.op = "setFrequency" /\ last.out = "ok"
    /\ Len(last.writes) = 2
    /\ last.writes[1].file = "period" /\ last.writes[2].file = "duty_cycle"
    /\ last.writes[1].val = 1000000 /\ last.writes[2].val = 500000
    /\ \E c \in Ctrl, ch \in Chan :
          /\ handles[c][ch].made /\ ~handles[c][ch].closed
          /\ 2 * handles[c][ch].dutyCycle = RatioDen
          /\ handles[c][ch].periodNs = 1000000

\* The last three writes of a successful channel() are period, duty_cycle and
\* enable=1 of one channel, in that order, after at least one permission check.
ConfiguredInOrder ==
    last.op = "channel" /\ last.out = "ok" =>
        LET n == Len(last.writes)
        IN /\ n >= 3
           /\ last.writes[n - 2].file = "period"
           /\ last.writes[n - 1].file = "duty_cycle"
           /\ last.writes[n].file = "enable" /\ last.writes[n].val = 1
           /\ \A i \in (n - 2)..n : last.writes[i].ok
           /\ \A i \in 1..(n - 3) : last.writes[i].file = "export"
           /\ last.permChecks >= 1

\* C3 (as claimed): a successful channel() writes period, duty_cycle, enable=1 in
\* that order after the permission poll, and every open handle refers to a
\* channel whose enable file was last written 1.
C3_EnabledWhileOpen ==
    /\ ConfiguredInOrder
    /\ \A c \in Ctrl, ch \in Chan :
          handles[c][ch].made /\ ~handles[c][ch].closed =>
              /\ ch \in Range(channels[c])
              /\ sysfs[ch].exported /\ sysfs[ch].enable = 1

\* C4: channel() on an open controller that tracks the index throws
\* ChannelInUse, attempts no write and changes nothing of the controllers, the
\* handles and the sysfs tree.
C4_InUseRejected ==
    [][last'.op = "channel" =>
          \A c \in Ctrl, ch \in Chan, a \in ChannelArgs :
              /\ pwmState[c] = "open"
              /\ ch \in Range(channels[c])
              /\ Channel(c, ch, a[1], a[2])
              => /\ last'.out = "ChannelInUse"
                 /\ last'.writes = <<>>
                 /\ UNCHANGED <<pwmState, channels, handles, sysfs>>
      ]_vars

\* C4 witness: a channel() call was rejected as in use while a handle is open.
C4_Witness ==
    /\ last.op = "channel" /\ last.out = "ChannelInUse"
    /\ \E c \in Ctrl, ch \in Chan :
          ch \in Range(channels[c]) /\ handles[c][ch].made /\ ~handles[c][ch].closed

\* C5 (as claimed): no two open PWMChannel handles of the process refer to the
\* same channel index of the chip, and no two open GPIOOutput handles to the
\* same line offset.
C5_ExclusiveLeases ==
    /\ \A ch \in Chan :
          Cardinality({c \in Ctrl : handles[c][ch].made /\ ~handles[c][ch].closed}) <= 1
    /\ \A pin \in Pin :
          Cardinality({id \in OutId : outObj[id].made /\ ~outObj[id].closed
                                        /\ outObj[id].pin = pin}) <= 1

ArgsInvalid(f, r) == f <= 0 \/ r < 0 \/ r > RatioDen

\* C7 (as claimed): channel() with a frequency <= 0 or a ratio outside [0,1]
\* throws InvalidParameter in every controller state, attempts no write and
\* changes nothing.
C7_InvalidAlwaysInvalidParameter ==
    [][last'.op = "channel" =>
          \A c \in Ctrl, ch \in Chan, a \in ChannelArgs :
              ArgsInvalid(a[1], a[2]) /\ Channel(c, ch, a[1], a[2])
              => /\ last'.out = "InvalidParameter"
                 /\ last'.writes = <<>>
                 /\ UNCHANGED <<pwmState, channels, handles, sysfs>>
      ]_vars

\* C7 (amended): channel() with a frequency <= 0 or a ratio outside [0,1] throws
\* ClosedHandle on a closed controller, else ChannelInUse when the index is
\* tracked, else InvalidParameter; in every case it attempts no write and
\* changes nothing.
C7_InvalidRejected ==
    [][last'.op = "channel" =>
          \A c \in Ctrl, ch \in Chan, a \in ChannelArgs :
              ArgsInvalid(a[1], a[2]) /\ Channel(c, ch, a[1], a[2])
              => /\ last'.out = (IF pwmState[c] = "closed" THEN "ClosedHandle"
                                 ELSE IF ch \in Range(channels[c]) THEN "ChannelInUse"
                                 ELSE "InvalidParameter")
                 /\ last'.writes = <<>>
                 /\ UNCHANGED <<pwmState, channels, handles, sysfs>>
      ]_vars

\* C7 witness: a channel() call threw InvalidParameter on an open controller that
\* already holds a handle for another index.
C7_Witness ==
    /\ last.op = "channel" /\ last.out = "InvalidParameter"
    /\ \E c \in Ctrl : pwmState[c] = "open" /\ channels[c] # <<>>

\* C8: setDutyCycle with a ratio outside [0,1] and setFrequency with a
\* frequency <= 0 throw, attempt no write, and leave the handle and the sysfs
\* tree as they were.
C8_SetterRejectsOutOfRange ==
    [][/\ last'.op = "setDutyCycle" =>
            \A c \in Ctrl, ch \in Chan, r \in RatioInputs, ioError \in BOOLEAN :
                (r < 0 \/ r > RatioDen) /\ SetDutyCycle(c, ch, r, ioError)
                => /\ last'.out \in {"InvalidParameter", "ClosedHandle"}
                   /\ ~handles[c][ch].closed => last'.out = "InvalidParameter"
                   /\ last'.writes = <<>>
                   /\ UNCHANGED <<handles, sysfs>>
       /\ last'.op = "setFrequency" =>
            \A c \in Ctrl, ch \in Chan, f \in FreqInputs, failAt \in 0..2 :
                f <= 0 /\ SetFrequency(c, ch, f, failAt)
                => /\ last'.out \in {"InvalidParameter", "ClosedHandle"}
                   /\ ~handles[c][ch].closed => last'.out = "InvalidParameter"
                   /\ last'.writes = <<>>
                   /\ UNCHANGED <<handles, sysfs>>
      ]_vars

\* C8 witness: a setter threw InvalidParameter on an open handle.
C8_Witness ==
    /\ last.op \in {"setDutyCycle", "setFrequency"}
    /\ last.out = "InvalidParameter"
    /\ \E c \in Ctrl, ch \in Chan : handles[c][ch].made /\ ~handles[c][ch].closed

\* The writes of a release of channel ch as claimed: enable=0, then the index
\* to unexport.
DisableThenUnexport(log, ch) ==
    /\ Len(log) = 2
    /\ log[1].file = "enable" /\ log[1].ch = ch /\ log[1].val = 0
    /\ log[2].file = "unexport" /\ log[2].val = ch

\* C9 (as claimed): releasing an open channel through PWMChannel.close() or
\* through PWM.close() writes enable=0 and then the index to unexport, and the
\* handle ends closed whether or not the writes fail.
C9_ReleaseDisablesAndUnexports ==
    [][/\ last'.op = "PWMChannel.close" =>
            \A c \in Ctrl, ch \in Chan, ioError \in BOOLEAN :
                ~handles[c][ch].closed /\ ChannelClose(c, ch, ioError)
                => /\ DisableThenUnexport(last'.writes, ch)
                   /\ handles'[c][ch].closed
                   /\ last'.out = "ok"
       /\ last'.op = "PWM.close" =>
            \A c \in Ctrl :
                /\ pwmState[c] = "open"
                /\ \E d \in SUBSET Chan, u \in SUBSET Chan : PWMClose(c, d, u)
                => /\ \A ch \in Range(channels[c]) :
                          /\ handles'[c][ch].closed
                          /\ ~handles[c][ch].closed =>
                                 DisableThenUnexport(
                                     SelectSeq(last'.writes, LAMBDA w : w.ch = ch), ch)
                   /\ last'.out = "ok"
      ]_vars

\* C10 (as claimed): enable=0 and unexport are each written at most once for a
\* handle, and a release call on a handle that is already closed (by
\* PWMChannel.close() or by PWM.close()) attempts no write for its channel.
C10_SecondReleaseWritesNothing ==
    [][/\ \A c \in Ctrl, ch \in Chan :
             relWrites'[c][ch].disable <= 1 /\ relWrites'[c][ch].unexport <= 1
       /\ last'.op = "PWMChannel.close" =>
            \A c \in Ctrl, ch \in Chan :
                handles[c][ch].closed /\ ChannelClose(c, ch, FALSE)
                => last'.writes = <<>> /\ last'.out = "ok"
       /\ last'.op = "PWM.close" =>
            \A c \in Ctrl :
                /\ pwmState[c] # "unborn"
                /\ \E d \in SUBSET Chan, u \in SUBSET Chan : PWMClose(c, d, u)
                => /\ \A ch \in Chan :
                          handles[c][ch].made /\ handles[c][ch].closed =>
                              SelectSeq(last'.writes, LAMBDA w : w.ch = ch) = <<>>
                   /\ last'.out = "ok"
      ]_vars

\* Offsets leased by a handle that is not closed.
LeasedPins ==
    {outObj[id].pin : id \in {k \in OutId : outObj[k].made /\ ~outObj[k].closed}}
        \cup {inObj[i].pin : i \in {k \in InId : inObj[k].made /\ ~inObj[k].closed}}

\* Open handles on offset pin.
OpenOn(pin) ==
    Cardinality({id \in OutId : outObj[id].made /\ ~outObj[id].closed /\ outObj[id].pin = pin})
        + Cardinality({i \in InId : inObj[i].made /\ ~inObj[i].closed /\ inObj[i].pin = pin})

\* output() or input() on an open controller for offset pin, whose outcome is
\* `refused` when an open handle leases the offset and which otherwise (the
\* kernel having no error of its own) returns one new open handle on it.
LeaseOutcome(refused) ==
    last'.op \in {"output", "input"} =>
        \A g \in Ctrl, pin \in Pin, ioError \in BOOLEAN :
            /\ gpioState[g] = "open"
            /\ \/ \E v \in BOOLEAN : Output(g, pin, v, ioError)
               \/ \E e \in EdgeSettings : Input(g, pin, e, ioError)
            => IF pin \in LeasedPins
               THEN /\ last'.out = refused
                    /\ UNCHANGED <<outObj, inObj, outputs, inputs>>
               ELSE ~ioError =>
                        /\ last'.out = "ok"
                        /\ OpenOn(pin)' = 1
                        /\ NumOutputs' + NumInputs' = NumOutputs + NumInputs + 1

CallsTo(log, file, n) == SelectSeq(log, LAMBDA w : w.file = file /\ w.ch = n)

\* C12: closing an open GPIO or PWM controller closes each still-open child
\* once and none of the closed ones (one line release per open GPIO handle, all
\* before gpiod_chip_close, which comes last; one enable=0 write per open PWM
\* handle), whether or not a child's write fails; afterwards every handle ever
\* made from the controller is closed and the controller is closed; closing a
\* closed controller calls nothing, writes nothing and changes nothing.
C12_ControllerCloseClosesChildren ==
    [][/\ last'.op = "GPIO.close" =>
            \A g \in Ctrl :
                GPIOClose(g) =>
                    IF gpioState[g] = "open"
                    THEN LET log == last'.writes
                             open == {outObj[id].pin : id \in {k \in Range(outputs[g]) : ~outObj[k].closed}}
                                       \cup {inObj[i].pin : i \in {k \in Range(inputs[g]) : ~inObj[k].closed}}
                         IN /\ \A id \in OutId : id \in Range(outputs[g]) => outObj'[id].closed
                            /\ \A i \in InId : i \in Range(inputs[g]) => inObj'[i].closed
                            /\ \A pin \in Pin :
                                   Len(CallsTo(log, "gpiod_line_request_release", pin))
                                       = IF pin \in open THEN 1 ELSE 0
                            /\ Len(CallsTo(log, "gpiod_chip_close", 0)) = 1
                            /\ log[Len(log)].file = "gpiod_chip_close"
                            /\ gpioState'[g] = "closed"
                            /\ last'.out = "ok"
                    ELSE last'.writes = <<>> /\ last'.out = "ok"
                         /\ UNCHANGED <<gpioVars, pwmVars>>
       /\ last'.op = "PWM.close" =>
            \A c \in Ctrl :
                /\ pwmState[c] # "unborn"
                /\ \E d \in SUBSET Chan, u \in SUBSET Chan : PWMClose(c, d, u)
                => IF pwmState[c] = "open"
                   THEN /\ \A ch \in Chan :
                              /\ handles[c][ch].made => handles'[c][ch].closed
                              /\ Len(CallsTo(last'.writes, "enable", ch))
                                     = IF handles[c][ch].made /\ ~handles[c][ch].closed
                                       THEN 1 ELSE 0
                        /\ pwmState'[c] = "closed"
                        /\ last'.out = "ok"
                   ELSE last'.writes = <<>> /\ last'.out = "ok"
                        /\ UNCHANGED <<gpioVars, pwmVars>>
      ]_vars

\* C12 witness: PWM.close() has closed a controller with two children while
\* the enable=0 write of one of them failed.
C12_Witness ==
    /\ last.op = "PWM.close"
    /\ \E k \in 1..Len(last.writes) : last.writes[k].file = "enable" /\ ~last.writes[k].ok
    /\ \E c \in Ctrl :
          /\ pwmState[c] = "closed"
          /\ \A ch \in Chan : handles[c][ch].made /\ handles[c][ch].closed

\* The call just made failed with the closed-handle error, made no FFI call,
\* wrote no file and left every object as it was.
FailedClosed ==
    /\ last'.out = "ClosedHandle"
    /\ last'.writes = <<>>
    /\ UNCHANGED <<pwmVars, gpioVars>>

\* The operations other than close() on closed handles and controllers, apart
\* from GPIOInput.offEdge: each fails closed.
ClosedOpsFail ==
    /\ last'.op \in {"on", "off", "toggle", "write"} =>
          \A id \in OutId, a \in OutputOps :
              outObj[id].closed /\ OutputSet(id, a[1], a[2]) => FailedClosed
    /\ last'.op = "read" =>
          \A i \in InId, ioError \in BOOLEAN :
              inObj[i].closed /\ InputRead(i, ioError) => FailedClosed
    /\ last'.op = "onEdge" =>
          \A i \in InId, cb \in CbId :
              inObj[i].closed /\ OnEdge(i, cb) => FailedClosed
    /\ last'.op = "waitForEdge" =>
          \A i \in InId, t \in WaitArgs, ioError \in BOOLEAN :
              inObj[i].closed /\ WaitForEdge(i, t, ioError) => FailedClosed
    /\ last'.op = "edges" =>
          \A i \in InId :
              inObj[i].closed /\ inObj[i].gen = "start" /\ EdgesNext(i)
              => /\ last'.out = "ClosedHandle" /\ last'.writes = <<>>
                 /\ inObj'[i] = [inObj[i] EXCEPT !.gen = "done"]
                 /\ blocked' = NoWait
    /\ last'.op = "setDutyCycle" =>
          \A c \in Ctrl, ch \in Chan, r \in RatioInputs, ioError \in BOOLEAN :
              handles[c][ch].closed /\ SetDutyCycle(c, ch, r, ioError) => FailedClosed
    /\ last'.op = "setFrequency" =>
          \A c \in Ctrl, ch \in Chan, f \in FreqInputs, failAt \in 0..3 :
              handles[c][ch].closed /\ SetFrequency(c, ch, f, failAt) => FailedClosed
    /\ last'.op = "SoftwarePWM.setDutyCycle" =>
          \A e \in SoftId, r \in 0..(RatioDen + 1) :
              soft[e].closed /\ SoftSetDutyCycle(e, r) => FailedClosed
    /\ last'.op = "SoftwarePWM.setFrequency" =>
          \A e \in SoftId, f \in {0, SoftDefaultFrequencyHz} :
              soft[e].closed /\ SoftSetFrequency(e, f) => FailedClosed
    /\ last'.op = "output" =>
          \A g \in Ctrl, pin \in Pin, v \in BOOLEAN, ioError \in BOOLEAN :
              gpioState[g] = "closed" /\ Output(g, pin, v, ioError) => FailedClosed
    /\ last'.op = "input" =>
          \A g \in Ctrl, pin \in Pin, e \in EdgeSettings, ioError \in BOOLEAN :
              gpioState[g] = "closed" /\ Input(g, pin, e, ioError) => FailedClosed
    /\ last'.op \in {"getChipInfo", "getLineInfo", "findPin"} =>
          \A g \in Ctrl, ioError \in BOOLEAN :
              gpioState[g] = "closed" /\ Query(g, last'.op, ioError) => FailedClosed
    /\ last'.op = "channel" =>
          \A c \in Ctrl, ch \in Chan, a \in ChannelArgs :
              pwmState[c] = "closed" /\ Channel(c, ch, a[1], a[2]) => FailedClosed

\* GPIOInput.offEdge on a closed handle fails closed.
ClosedOffEdgeFails ==
    last'.op = "offEdge" =>
        \A i \in InId, cb \in CbId :
            inObj[i].closed /\ OffEdge(i, cb) => FailedClosed

\* C13 (as claimed): every operation other than close() on a closed handle or
\* controller, offEdge included, fails with the closed-handle error and makes
\* no FFI call and no file write.
C13_EveryClosedOpFails == [][ClosedOpsFail /\ ClosedOffEdgeFails]_vars

\* C13 (amended): every operation other than close() on a closed handle or
\* controller fails with the closed-handle error and makes no FFI call and no
\* file write, except GPIOInput.offEdge, which on a closed handle returns
\* normally, having made no FFI call and changed nothing.
C13_ClosedOpsFailButOffEdge ==
    [][/\ ClosedOpsFail
       /\ last'.op = "offEdge" =>
             \A i \in InId, cb \in CbId :
                 inObj[i].closed /\ OffEdge(i, cb)
                 => /\ last'.out = "ok" /\ last'.writes = <<>>
                    /\ UNCHANGED <<pwmVars, gpioVars>>
      ]_vars

\* C13 witness: offEdge was called on the only input handle after it had
\* been closed, and returned.
C13_Witness ==
    /\ last.op = "offEdge" /\ last.out = "ok"
    /\ NumInputs = 1
    /\ \E i \in InId : inObj[i].made /\ inObj[i].closed

\* C14: a GPIOInput has one poll interval when it is open and has a callback
\* registered, and none otherwise; pollInterval holds it exactly then.
C14_PollTimerIffCallbacks ==
    \A i \in InId :
        inObj[i].made =>
            /\ inObj[i].timers
                   = IF ~inObj[i].closed /\ Len(inObj[i].edgeCallbacks) > 0 THEN 1 ELSE 0
            /\ inObj[i].pollInterval <=> inObj[i].timers = 1

\* C14 witness: on an open handle whose poll has delivered events, offEdge has
\* removed the last callback and the interval is gone.
C14_Witness ==
    /\ last.op = "offEdge"
    /\ \E i \in InId :
          /\ inObj[i].made /\ ~inObj[i].closed
          /\ EventsRead(inObj[i]) > 0
          /\ inObj[i].edgeCallbacks = <<>>
          /\ inObj[i].timers = 0

\* The callback invocations in the trace of a poll tick, in the order made.
Invocations(log) == SelectSeq(log, LAMBDA w : w.file = "callback")

\* Number of places at which cb is registered in cbs.
Registrations(cbs, cb) == Cardinality({j \in 1..Len(cbs) : cbs[j] = cb})

C16_OffEdgeStopsOnlyThatCallback ==
    [][/\ last'.op = "offEdge" =>
             \A i \in InId, cb \in CbId :
                 OffEdge(i, cb) =>
                     SelectSeq(inObj'[i].edgeCallbacks, LAMBDA c : c # cb)
                         = SelectSeq(inObj[i].edgeCallbacks, LAMBDA c : c # cb)
       /\ \A i \in InId :
             /\ last'.op = "tick"
             /\ inObj[i].timers > 0
             /\ Len(inObj'[i].queue) < Len(inObj[i].queue)
             => LET q == inObj[i].queue
                    m == IF Len(q) < 16 THEN Len(q) ELSE 16
                IN \A cb \in CbId :
                       LET r == Registrations(inObj[i].edgeCallbacks, cb)
                           got == SelectSeq(Invocations(last'.writes), LAMBDA w : w.ch = cb)
                       IN r > 0 /\ Registrations(inObj'[i].edgeCallbacks, cb) = r =>
                              /\ Len(got) = m * r
                              /\ \A e \in 1..m, j \in 1..r : got[(e - 1) * r + j].val = q[e]
      ]_vars

\* C17: a poll tick in which an invoked callback throws still ends normally;
\* when no callback is unregistered during the tick, every callback is still
\* invoked for the event at which the error occurred and for every later
\* event the tick read (each invocation that throws is followed by the
\* invocations that would follow it had it returned), and the handle keeps
\* its poll interval.
C17_CallbackErrorIsolated ==
    [][\A i \in InId :
           /\ last'.op = "tick"
           /\ inObj[i].timers > 0
           /\ Len(inObj'[i].queue) < Len(inObj[i].queue)
           /\ \E p \in 1..Len(last'.writes) :
                  last'.writes[p].file = "callback" /\ ~last'.writes[p].ok
           => LET q == inObj[i].queue
                  cbs == inObj[i].edgeCallbacks
                  k == Len(cbs)
                  m == IF Len(q) < 16 THEN Len(q) ELSE 16
                  inv == Invocations(last'.writes)
              IN /\ last'.out = "ok"
                 /\ inObj'[i].edgeCallbacks = cbs =>
                        /\ inObj'[i].timers = 1 /\ inObj'[i].pollInterval
                        /\ \A p \in 1..Len(inv) :
                               ~inv[p].ok =>
                                   /\ Len(inv) = m * k
                                   /\ \A n \in (p + 1)..(m * k) :
                                          /\ inv[n].ch = cbs[((n - 1) % k) + 1]
                                          /\ inv[n].val = q[((n - 1) \div k) + 1]
      ]_vars

\* C17 witness: a tick read 16 events for two callbacks, the first invocation
\* threw, all 32 invocations were made and the interval is still there.
C17_Witness ==
    /\ last.op = "tick" /\ last.out = "ok"
    /\ Len(Invocations(last.writes)) = 32
    /\ ~Invocations(last.writes)[1].ok
    /\ \E i \in InId : inObj[i].timers = 1 /\ Len(inObj[i].edgeCallbacks) = 2

\* The call just made failed with the edge-detection-disabled error, made no
\* FFI call and left every object as it was.
FailedDisabled ==
    /\ last'.out = "EdgeDetectionDisabled"
    /\ last'.writes = <<>>
    /\ UNCHANGED <<pwmVars, gpioVars>>

\* The handle i is open and was requested without edge detection.
OpenWithoutEdges(i) == inObj[i].made /\ ~inObj[i].closed /\ inObj[i].edge = "none"

\* C18: on an open input handle requested with edge "none", onEdge,
\* waitForEdge and the start of an edges() iteration fail with the
\* edge-detection-disabled error, make no FFI call, register nothing and start
\* no wait; such a handle never has a callback, a poll interval or an event
\* buffer.
C18_NoEdgeDetection ==
    [][/\ last'.op = "onEdge" =>
             \A i \in InId, cb \in CbId :
                 OpenWithoutEdges(i) /\ OnEdge(i, cb) => FailedDisabled
       /\ last'.op = "waitForEdge" =>
             \A i \in InId, t \in WaitArgs, ioError \in BOOLEAN :
                 OpenWithoutEdges(i) /\ WaitForEdge(i, t, ioError) => FailedDisabled
       /\ last'.op = "edges" =>
             \A i \in InId :
                 OpenWithoutEdges(i) /\ inObj[i].gen = "start" /\ EdgesNext(i)
                 => /\ last'.out = "EdgeDetectionDisabled" /\ last'.writes = <<>>
                    /\ inObj'[i] = [inObj[i] EXCEPT !.gen = "done"]
                    /\ blocked' = NoWait
       /\ \A i \in InId :
             OpenWithoutEdges(i)' =>
                 /\ inObj'[i].edgeCallbacks = <<>>
                 /\ inObj'[i].timers = 0 /\ ~inObj'[i].pollInterval
                 /\ ~inObj'[i].eventBuffer
      ]_vars

\* C18 witness: onEdge was refused on an open handle without edge detection.
C18_Witness ==
    /\ last.op = "onEdge" /\ last.out = "EdgeDetectionDisabled"
    /\ \E i \in InId : OpenWithoutEdges(i)

\* waitForEdge(t) as claimed, for timeouts in T and a kernel without errors:
\* the zero poll returns null at once when nothing is pending and else takes
\* the event at the head of the queue; every other call goes into the wait; a
\* wait returns an event, taking the head of the queue, or, only for a
\* positive timeout with nothing pending, null.
WaitForEdgeByTimeout(T) ==
    /\ last'.op = "waitForEdge" /\ blocked = NoWait =>
          \A i \in InId, t \in T :
              /\ inObj[i].made /\ ~inObj[i].closed /\ inObj[i].edge # "none"
              /\ WaitForEdge(i, t, FALSE)
              => IF t = "zero"
                 THEN IF inObj[i].queue = <<>>
                      THEN last'.out = "null" /\ UNCHANGED <<inObj, blocked>>
                      ELSE /\ last'.out = "event"
                           /\ inObj'[i].queue = Tail(inObj[i].queue)
                           /\ blocked' = NoWait
                 ELSE /\ last'.out = "waiting"
                      /\ blocked' = [inp |-> i, t |-> t, via |-> "waitForEdge"]
                      /\ UNCHANGED inObj
    /\ /\ blocked.via = "waitForEdge"
       /\ blocked' = NoWait
       /\ last'.out # "WaitFailed"
       => LET i == blocked.inp
          IN IF last'.out = "event"
             THEN /\ inObj[i].queue # <<>>
                  /\ inObj'[i].queue = Tail(inObj[i].queue)
                  /\ last'.writes[Len(last'.writes)].val = Head(inObj[i].queue)
             ELSE /\ last'.out = "null"
                  /\ blocked.t \in {"positive", "fraction"}
                  /\ inObj[i].queue = <<>>
                  /\ UNCHANGED inObj

\* C19 (as claimed): waitForEdge(0) polls once; with the timeout absent or
\* negative it waits until an event is there and never returns null; with any
\* timeout above 0 it waits and returns the next event or, when the time runs
\* out, null; each returned event is taken off the head of the line's queue.
C19_WaitForEdgeByTimeout == [][WaitForEdgeByTimeout(WaitArgs)]_vars

\* C20 (as claimed): while a waitForEdge call is inside its wait on one input
\* line, the poll interval of every other input handle that has one and the
\* tick interval of every running software PWM engine can fire.
C20_WaitSuspendsOnlyCaller ==
    blocked.via = "waitForEdge" =>
        /\ \A i \in InId \ {blocked.inp} : inObj[i].timers > 0 => ENABLED PollFires(i)
        /\ \A s \in SoftId : soft[s].timer => ENABLED SoftFires(s)

\* GPIOInput.close() on an open handle: the poll interval is cleared, the
\* event buffer freed once, the request released, the callbacks dropped and
\* the handle closed.
CloseReleasesInput ==
    last'.op = "GPIOInput.close" =>
        \A i \in InId :
            ~inObj[i].closed /\ InputClose(i) =>
                /\ inObj'[i].timers = 0 /\ ~inObj'[i].pollInterval
                /\ Len(CallsTo(last'.writes, "gpiod_edge_event_buffer_free", inObj[i].pin))
                       = IF inObj[i].eventBuffer THEN 1 ELSE 0
                /\ ~inObj'[i].eventBuffer
                /\ Len(CallsTo(last'.writes, "gpiod_line_request_release", inObj[i].pin)) = 1
                /\ inObj[i].pin \notin lineBusy'
                /\ inObj'[i].edgeCallbacks = <<>>
                /\ inObj'[i].closed
                /\ last'.out = "ok"

\* C21 (as claimed): while a single-wait is in flight on an input handle,
\* close() can be called on that handle (and the wait then ends at once).
C21_CloseReachesWaitInFlight ==
    blocked.via = "waitForEdge" => ENABLED CloseRuns(blocked.inp)

\* C22 (as claimed): a pull on a sequence obtained from edges() whose handle is
\* closed -- before the first pull or while suspended at a yield -- completes
\* the sequence without a value and without raising.
C22_ClosedSequenceCompletes ==
    [][\A i \in InId :
          inObj[i].closed /\ EdgesNext(i) =>
              inObj'[i].gen = "done" /\ last'.out = "done"]_vars

\* The levels that the call logged in `log` wrote to a line.
LevelsWritten(log) ==
    {log[k].val : k \in {j \in 1..Len(log) : log[j].file = "gpiod_line_request_set_value"}}

\* The step is a tick of engine s: a firing of its interval, or the first tick
\* made by its constructor.
Ticked(s) ==
    \/ SoftTick(s)
    \/ \E id \in OutId, f \in SoftFreqInputs, r \in SoftRatioInputs :
           SoftNew(s, id, f, r) /\ soft'[s].made

\* C23: with duty ratio exactly 0 no tick of a software PWM engine writes high,
\* and with duty ratio exactly 1 no tick writes low, whatever the frequency, the
\* clock reading and the number of ticks before.
C23_ExtremeDutyNeverFlips ==
    [][\A s \in SoftId :
          Ticked(s) =>
              /\ soft'[s].dutyCycle = 0 => 1 \notin LevelsWritten(last'.writes)
              /\ soft'[s].dutyCycle = RatioDen => 0 \notin LevelsWritten(last'.writes)]_vars

\* An engine at duty ratio 1 ticks in a later cycle, at a clock reading where a
\* ratio below 1 is in its low part, with its level still low: it writes high.
C23_Witness ==
    \E s \in SoftId :
        /\ last.op = "SoftwarePWM.tick"
        /\ soft[s].dutyCycle = RatioDen
        /\ now - soft[s].cycleStartNs >= SoftPeriodNs(soft[s].frequencyHz)
        /\ LevelsWritten(last.writes) = {1}

\* The fields of engine s other than the stored duty ratio and frequency, and
\* the output lines, are the same after the step, and the step wrote nothing.
OnlyStoredValueChanged(s) ==
    /\ soft'[s].cycleStartNs = soft[s].cycleStartNs
    /\ soft'[s].lastState = soft[s].lastState
    /\ soft'[s].timer = soft[s].timer
    /\ soft'[s].closed = soft[s].closed
    /\ soft'[s].output = soft[s].output
    /\ \A e \in SoftId \ {s} : soft'[e] = soft[e]
    /\ outObj' = outObj
    /\ last'.writes = <<>>

\* The level of a cycle of length p at `elapsed` nanoseconds after an anchor,
\* for duty ratio n / RatioDen: high in the first n / RatioDen of each cycle.
LevelAt(elapsed, p, n) == (elapsed % p) * RatioDen < n * p

\* C24: a returning setDutyCycle or setFrequency of a software PWM engine
\* changes only the stored ratio or frequency: the cycle anchor, the last
\* emitted level and the timer stay as they are and nothing is written; and a
\* tick at a ratio strictly between 0 and 1 takes its level from the position
\* of the clock relative to the anchor that was stored before it.
C24_SettersKeepAnchor ==
    [][\A s \in SoftId :
          /\ \A r \in SoftRatioInputs :
                 SoftSetDutyCycle(s, r) /\ last'.out = "ok" =>
                     /\ soft'[s].dutyCycle = r
                     /\ soft'[s].frequencyHz = soft[s].frequencyHz
                     /\ OnlyStoredValueChanged(s)
          /\ \A f \in SoftFreqInputs :
                 SoftSetFrequency(s, f) /\ last'.out = "ok" =>
                     /\ soft'[s].frequencyHz = f
                     /\ soft'[s].dutyCycle = soft[s].dutyCycle
                     /\ OnlyStoredValueChanged(s)
          /\ ( /\ SoftTick(s) /\ last'.out = "ok" /\ ~soft[s].closed
               /\ soft[s].dutyCycle \in 1..(RatioDen - 1) ) =>
                  soft'[s].lastState =
                      LevelAt(now - soft[s].cycleStartNs,
                              NsPerSec \div soft[s].frequencyHz, soft[s].dutyCycle)]_vars

\* setFrequency has returned on an engine that is later in its cycle than one
\* period of the new frequency.
C24_Witness ==
    \E s \in SoftId :
        /\ last.op = "SoftwarePWM.setFrequency" /\ last.out = "ok"
        /\ soft[s].made /\ ~soft[s].closed
        /\ soft[s].dutyCycle \in 1..(RatioDen - 1)
        /\ now - soft[s].cycleStartNs >= SoftPeriodNs(soft[s].frequencyHz)
        /\ soft[s].lastState

\* What C25 says of a step of engine s: close() on an open engine ends with the
\* timer stopped, exactly one write, of low, to the line of its output, and
\* the engine closed, without an error; on a closed engine ticks and close()
\* write nothing, raise nothing and change nothing, and no timer is left.
CloseStopsEngine(s) ==
    /\ SoftClose(s) /\ ~soft[s].closed =>
           /\ ~soft'[s].timer
           /\ last'.writes = <<W("gpiod_line_request_set_value",
                                 outObj[soft[s].output].pin, 0, TRUE)>>
           /\ soft'[s].closed
           /\ last'.out = "ok"
    /\ soft[s].closed => ~soft[s].timer
    /\ (SoftTick(s) \/ SoftClose(s)) /\ soft[s].closed =>
           /\ last'.writes = <<>> /\ last'.out = "ok"
           /\ soft' = soft /\ outObj' = outObj

\* C25 (as claimed): SoftwarePWM.close() on an open engine stops the tick
\* timer, writes low to the underlying output and marks the engine closed;
\* afterwards no tick writes, and a second close() writes nothing and raises
\* nothing.
C25_CloseStopsEngine ==
    [][\A s \in SoftId : CloseStopsEngine(s)]_vars

\* C26: constructing a SoftwarePWM with a duty ratio outside [0, 1] or a
\* frequency <= 0 fails with the invalid-parameter error before the cadence
\* starts: no engine with a timer comes into being and nothing is written.
C26_InvalidEngineRejected ==
    [][\A s \in SoftId, id \in OutId, f \in SoftFreqInputs, r \in SoftRatioInputs :
          SoftNew(s, id, f, r) /\ (r < 0 \/ r > RatioDen \/ f <= 0) =>
              /\ last'.out = "InvalidParameter"
              /\ last'.writes = <<>>
              /\ ~soft'[s].made /\ ~soft'[s].timer
              /\ soft' = soft
              /\ outObj' = outObj]_vars

\* A construction on an open output has just been rejected.
C26_Witness ==
    /\ last.op = "new SoftwarePWM" /\ last.out = "InvalidParameter"
    /\ \E id \in OutId : outObj[id].made /\ ~outObj[id].closed
    /\ \A e \in SoftId : ~soft[e].made

\* The step turns the closed flag of PWM channel handle (c, ch) from false to
\* true only with a write of enable = 0 to its channel attempted in the step.
ChannelFlagAfterDisable(c, ch) ==
    handles[c][ch].made /\ ~handles[c][ch].closed /\ handles'[c][ch].closed =>
        Len(CallsTo(SelectSeq(last'.writes, LAMBDA w : w.val = 0), "enable", ch)) > 0

\* The step turns the closed flag of software PWM engine s from false to true
\* only with a write of low to the line of its output attempted in the step.
EngineFlagAfterLow(s) ==
    soft[s].made /\ ~soft[s].closed /\ soft'[s].closed =>
        Len(CallsTo(SelectSeq(last'.writes, LAMBDA w : w.val = 0),
                    "gpiod_line_request_set_value", outObj[soft[s].output].pin)) > 0

\* C28 (as claimed): in SoftwarePWM.close() and in PWMChannel.close() the
\* write that forces the output low, or writes enable = 0, comes before the
\* closed flag is set: the flag is never true while that write has not been
\* attempted.
C28_ForcingWriteBeforeClosedFlag ==
    [][/\ \A c \in Ctrl, ch \in Chan : ChannelFlagAfterDisable(c, ch)
       /\ \A s \in SoftId : EngineFlagAfterLow(s)]_vars

\* How often channel index ch is in the tracked set of controller c.
TimesTracked(chs, ch) == Len(SelectSeq(chs, LAMBDA x : x = ch))

\* What C27 says of a call of PWM.channel on the only controller c, for each
\* index ch.  Calls of one controller run one after the other: channel() is
\* synchronous from its first to its last statement.  The call returns a handle
\* only for an index that is not tracked, the index is tracked once at most,
\* and the call writes the index to export only while the channel is not
\* exported (in a run of one controller a channel is exported from a
\* successful export write until the next successful unexport write).
SerializedAcquire(c, ch) ==
    /\ last'.out = "ok" /\ Len(CallsTo(last'.writes, "export", ch)) > 0 =>
           TimesTracked(channels[c], ch) = 0
    /\ TimesTracked(channels'[c], ch) <= 1
    /\ Len(CallsTo(last'.writes, "export", ch)) <= 1
    /\ Len(CallsTo(last'.writes, "export", ch)) = 1 => ~sysfs[ch].exported

\* C27 (as claimed): of two acquisitions of one PWM channel index on one
\* controller at most one returns a handle, the other runs after it or is
\* rejected as in use; the index is never written to export twice without an
\* unexport in between, and the tracked set never holds the index twice.
C27_SameIndexSerialized ==
    [][Solo /\ last'.op = "channel" =>
           \A c \in Ctrl, ch \in Chan :
               pwmState[c] # "unborn" => SerializedAcquire(c, ch)]_vars

\* The writes of `log` to the control files period, duty_cycle and enable.
ConfigWrites(log) ==
    SelectSeq(log, LAMBDA w : w.file \in {"period", "duty_cycle", "enable"})

\* C29: in a call of PWM.channel whose export write succeeded, the control
\* directory is polled with at most 10 sleeps; a call that ends with the
\* export-timeout error has made all 10, has then written the index to
\* unexport once (whether or not that write failed), has written none of
\* period, duty_cycle and enable, and has tracked nothing; no other call made
\* in this way writes unexport.
C29_ExportTimeout ==
    [][( /\ last'.op = "channel"
         /\ Len(last'.writes) > 0
         /\ last'.writes[1].file = "export" /\ last'.writes[1].ok ) =>
           LET ch == last'.writes[1].ch
           IN /\ last'.dirSleeps <= 10
              /\ IF last'.out = "ExportTimeout"
                 THEN /\ last'.dirSleeps = 10
                      /\ Len(last'.writes) = 2
                      /\ last'.writes[2].file = "unexport" /\ last'.writes[2].ch = ch
                      /\ ConfigWrites(last'.writes) = <<>>
                      /\ channels' = channels /\ handles' = handles
                      /\ pwmState' = pwmState
                 ELSE Len(CallsTo(last'.writes, "unexport", ch)) = 0]_vars

\* A call has ended with the export-timeout error after its unexport write
\* failed.
C29_Witness ==
    /\ last.op = "channel" /\ last.out = "ExportTimeout"
    /\ last.dirSleeps = DirRetries
    /\ Len(last.writes) = 2 /\ last.writes[1].ok /\ ~last.writes[2].ok
    /\ \A c \in Ctrl : channels[c] = <<>>

\* C30: a call of PWM.channel makes at most 50 access checks on the period
\* file.  A call that ends with the permission-denied error has made all 50,
\* has written none of period, duty_cycle and enable and has tracked nothing;
\* every other call that made a check, the 50th included, has gone on to the
\* configuration: its next action was the write of period.
C30_PermissionPoll ==
    [][last'.op = "channel" =>
           /\ last'.permChecks <= 50
           /\ IF last'.out = "PermissionDenied"
              THEN /\ last'.permChecks = 50
                   /\ ConfigWrites(last'.writes) = <<>>
                   /\ channels' = channels /\ handles' = handles
                   /\ pwmState' = pwmState
              ELSE last'.permChecks > 0 =>
                       /\ ConfigWrites(last'.writes) # <<>>
                       /\ ConfigWrites(last'.writes)[1].file = "period"
                       /\ last'.out \in {"ok", "WriteFailed"}]_vars

\* A call has returned a handle after the period file became writable at the
\* 50th check.
C30_Witness ==
    /\ last.op = "channel" /\ last.out = "ok"
    /\ last.permChecks = PermRetries
    /\ \E c \in Ctrl : channels[c] # <<>>

\* What C31 says of a tick of engine s at a duty ratio strictly between 0 and
\* 1, with p the period of its frequency in nanoseconds.
AnchorTracksClock(s, p) ==
    LET before == IF soft[s].made THEN soft[s].cycleStartNs ELSE now
        anchor == soft'[s].cycleStartNs
    IN /\ 0 <= now - anchor /\ now - anchor < p
       /\ anchor >= before
       /\ (anchor - before) % p = 0
       /\ (anchor - before) \div p = (now - before) \div p
       /\ last'.out = "ok" =>
              (soft'[s].lastState <=> (now - anchor) * RatioDen < soft'[s].dutyCycle * p)

TargetLevel(s) ==
    LET e == soft'[s]
        anchor == IF soft[s].made THEN soft[s].cycleStartNs ELSE now
    IN IF e.dutyCycle = 0 THEN FALSE
       ELSE IF e.dutyCycle = RatioDen THEN TRUE
       ELSE LevelAt(now - anchor, NsPerSec \div e.frequencyHz, e.dutyCycle)

\* C32: a tick of a software PWM engine whose target level equals the last
\* emitted level writes nothing; a tick that writes makes one write, of the
\* level opposite to the last emitted one, which becomes the last emitted
\* level; and between ticks no call on the open engine changes the last
\* emitted level, so two consecutive writes of ticks never carry one level.
C32_TickWritesOnChange ==
    [][\A s \in SoftId :
          IF Ticked(s)
          THEN /\ TargetLevel(s) = soft[s].lastState => last'.writes = <<>>
               /\ last'.writes # <<>> =>
                      /\ Len(last'.writes) = 1
                      /\ LevelsWritten(last'.writes)
                             = {IF soft[s].lastState THEN 0 ELSE 1}
                      /\ soft'[s].lastState = ~soft[s].lastState
               /\ last'.writes = <<>> => soft'[s].lastState = soft[s].lastState
          ELSE soft[s].made /\ ~soft'[s].closed =>
                   soft'[s].lastState = soft[s].lastState]_vars

\* A tick late in a cycle found the level it aims at already emitted and
\* wrote nothing.
C32_Witness ==
    \E s \in SoftId :
        /\ last.op = "SoftwarePWM.tick" /\ last.out = "ok" /\ last.writes = <<>>
        /\ soft[s].made /\ ~soft[s].closed /\ ~outObj[soft[s].output].closed
        /\ soft[s].dutyCycle \in 1..(RatioDen - 1)
        /\ now > soft[s].cycleStartNs
        /\ soft[s].lastState

\* The last emitted level of engine s is the state of its output after the step.
EmittedIsActual(s) == soft'[s].lastState = outObj'[soft'[s].output].state

\* C33 (as claimed): after the first tick of a software PWM engine, the one
\* made by its constructor, the last emitted level equals the state of the
\* underlying output, whatever initial value the output was created with, and
\* every later tick of the open engine keeps them equal when they were equal
\* before it.
C33_EmittedLevelIsActual ==
    [][\A s \in SoftId :
          /\ ( /\ \E id \in OutId, f \in SoftFreqInputs, r \in SoftRatioInputs :
                       SoftNew(s, id, f, r)
               /\ soft'[s].made /\ last'.out = "ok" ) => EmittedIsActual(s)
          /\ ( /\ SoftTick(s) /\ last'.out = "ok"
               /\ soft[s].lastState = outObj[soft[s].output].state ) =>
                  EmittedIsActual(s)]_vars

\* In the trace `log` of one call nothing is done with the events of a line
\* after its event buffer was freed: no callback is invoked and no event is
\* read or decoded.
NothingAfterFree(log) ==
    \A p \in 1..Len(log), q \in 1..Len(log) :
        log[p].file = "gpiod_edge_event_buffer_free" /\ p < q =>
            log[q].file \notin {"callback", "gpiod_edge_event_buffer_get_event",
                                "gpiod_line_request_read_edge_events"}

\* C34 (as claimed): once close() has been called on an input handle no edge
\* callback is invoked and its event buffer is not read again, also when
\* close() is called by a callback during the dispatch of a poll tick: a poll
\* tick of a closed handle makes no FFI call and invokes nothing, and within
\* a tick nothing follows the freeing of the buffer, and the tick ends
\* normally.
C34_NoDispatchAfterClose ==
    [][last'.op = "tick" /\ Len(last'.writes) > 0 =>
           /\ NothingAfterFree(last'.writes)
           /\ last'.out = "ok"
           /\ \A i \in InId : inObj[i].closed => last'.writes[1].ch # inObj[i].pin]_vars

\* C35 (as claimed): no tick of an open software PWM engine raises an error
\* or writes to a released line, also after the underlying output was closed
\* directly or by GPIO.close(), and close() of the engine then completes
\* without raising.
C35_ClosedOutputTolerated ==
    [][\A s \in SoftId :
          soft[s].made /\ (SoftTick(s) \/ SoftClose(s)) =>
              /\ last'.out = "ok"
              /\ outObj[soft[s].output].closed => last'.writes = <<>>]_vars

\* The sysfs tree after each write of a log in turn, from the tree fs before the
\* call: TRUE when no accepted write to period or duty_cycle leaves the
\* channel's duty_cycle above its period.
RECURSIVE DutyWithinPeriod(_, _, _)
DutyWithinPeriod(fs, log, i) ==
    IF i > Len(log) THEN TRUE
    ELSE LET w == log[i]
             after == IF w.ok THEN KernelApply(fs, w.file, w.ch, w.val) ELSE fs
         IN /\ w.file \in {"period", "duty_cycle"} =>
                   after[w.ch].duty_cycle <= after[w.ch].period
            /\ DutyWithinPeriod(after, log, i + 1)

\* C36 (as claimed): every single file write of PWM.channel, setFrequency and
\* setDutyCycle keeps the channel's duty_cycle at or below its period, whatever
\* valid configuration the channel had before.
C36_DutyNeverAbovePeriod ==
    [][last'.op \in {"channel", "setFrequency", "setDutyCycle"} =>
           DutyWithinPeriod(sysfs, last'.writes, 1)]_vars

\* The handle record h agrees with the control files d of its channel: its
\* period is the one in the period file and its ratio yields the duty_cycle file.
HandleMatchesFiles(h, d) ==
    /\ h.periodNs = d.period
    /\ MathRound(h.periodNs * h.dutyCycle, RatioDen) = d.duty_cycle

\* C37 (as claimed): a failed file write inside setFrequency or setDutyCycle
\* is raised to the caller and leaves the handle's period and ratio equal to
\* what the period and duty_cycle files hold, also when the period write went
\* through and the duty_cycle write failed.
C37_FailedSetterKeepsSync ==
    [][last'.op \in {"setFrequency", "setDutyCycle"} /\ Len(last'.writes) > 0
           /\ (\E k \in 1..Len(last'.writes) : ~last'.writes[k].ok) =>
           /\ last'.out = "WriteFailed"
           /\ \A c \in Ctrl :
                  LET ch == last'.writes[1].ch
                  IN handles[c][ch].made /\ HandleMatchesFiles(handles[c][ch], sysfs[ch]) =>
                         HandleMatchesFiles(handles'[c][ch], sysfs'[ch])]_vars

\* The call of PWM.channel recorded in `call` exported its channel itself: its
\* first write is an accepted write to export.
NewlyExported(call) ==
    /\ call.op = "channel"
    /\ Len(call.writes) > 0
    /\ call.writes[1].file = "export" /\ call.writes[1].ok

\* C38 (as claimed): when a call of PWM.channel that exported its channel
\* returns or raises, the channel is tracked by a controller or is no longer
\* exported; no failure path leaves an exported channel that no controller
\* will unexport.
C38_ExportedIsTrackedOrUndone ==
    [][NewlyExported(last') =>
           LET ch == last'.writes[1].ch
           IN sysfs'[ch].exported => \E c \in Ctrl : ch \in Range(channels'[c])]_vars

\* C39 (as claimed): in every state of an open PWM controller each channel of
\* its tracked set has a handle that is not closed, so that a channel whose
\* handle was closed by PWMChannel.close() is free to be acquired again.
C39_TrackedHandlesOpen ==
    \A c \in Ctrl, ch \in Chan :
        pwmState[c] = "open" /\ ch \in Range(channels[c]) =>
            handles[c][ch].made /\ ~handles[c][ch].closed

\* The events a step took out of the kernel queue of handle i, oldest first.
EventsTaken(i) ==
    SubSeq(inObj[i].queue, 1, Len(inObj[i].queue) - Len(inObj'[i].queue))

\* The pending events of handle i are the latest ones produced, in order: every
\* event that was read before is out of the queue.
PendingAreUnread(i) ==
    \A k \in 1..Len(inObj[i].queue) :
        inObj[i].queue[k] = inObj[i].arrived - Len(inObj[i].queue) + k

\* The values of the entries of `log` for `file`: the events handed to
\* callbacks ("callback") or decoded for a single wait (get_event).
ValuesOf(log, file) == {log[k].val : k \in {j \in 1..Len(log) : log[j].file = file}}

\* A step that reads events of handle i takes them off the head of the queue
\* and hands them to one consumer only: a single wait returns the one event it
\* read and invokes no callback, a poll tick hands callbacks the events it read
\* and no others.
ReadByOneConsumer(i) ==
    LET taken == Range(EventsTaken(i))
    IN /\ PendingAreUnread(i)
       /\ inObj'[i].queue = SubSeq(inObj[i].queue, Cardinality(taken) + 1, Len(inObj[i].queue))
       /\ last'.op \in {"waitForEdge", "edges"} =>
              /\ Cardinality(taken) = 1
              /\ ValuesOf(last'.writes, "callback") = {}
       /\ last'.op = "tick" =>
              /\ ValuesOf(last'.writes, "callback") \subseteq taken
              /\ ValuesOf(last'.writes, "gpiod_edge_event_buffer_get_event") = {}

\* Every event a step read from handle i reached a consumer: the single wait
\* returned it, or the poll tick invoked a callback with it.
ReadIsDelivered(i) ==
    LET taken == Range(EventsTaken(i))
    IN /\ last'.op \in {"waitForEdge", "edges"} =>
              /\ last'.out = "event"
              /\ ValuesOf(last'.writes, "gpiod_edge_event_buffer_get_event") = taken
       /\ last'.op = "tick" => taken \subseteq ValuesOf(last'.writes, "callback")

\* The steps that read events of handle i: the queue changes although nothing
\* arrives and the handle stays open.
ReadsEvents(i) ==
    /\ inObj[i].made /\ ~inObj'[i].closed
    /\ inObj'[i].arrived = inObj[i].arrived
    /\ inObj'[i].queue # inObj[i].queue

\* C40 (as claimed): each edge event is read from the line's event source at most
\* once, by a single wait or by the callback poll and never by both, and no
\* event that was read goes undelivered while both consumers are in use.
C40_EventReadOnceAndDelivered ==
    [][\A i \in InId : ReadsEvents(i) => ReadByOneConsumer(i) /\ ReadIsDelivered(i)]_vars

====
